---- MODULE Spec2Model ----
(***************************************************************************)
(* The reactive runtime of momenta-core (src/momenta-core/src/signals.rs): *)
(* the signal store, the scope registry, the dependency indices, the       *)
(* effect registry and the batch/drain scheduler.                          *)
(*                                                                         *)
(* The runtime is re-entrant: user closures (render bodies, callbacks,     *)
(* effects, batch bodies, computations) call back into it.  The model is   *)
(* an interpreter with an explicit call stack.  A frame is either a user   *)
(* closure in execution (kind "body") or a runtime function suspended at a *)
(* call into user code or into another runtime function (kinds "render",   *)
(* "drain", "batch", "computed").  The bottom frame is the hosting caller, *)
(* which runs outside any scope.                                           *)
(*                                                                         *)
(* Abstractions.  Signal values are integers modulo MaxVal.  A closure is  *)
(* a sequence of runtime calls (Prog); the host and the closure of a batch *)
(* called by the host choose their calls freely.  spin::Mutex is not       *)
(* re-entrant: a call that needs a lock held further down its own stack    *)
(* spins forever, which is the terminal status "deadlock"; the call is     *)
(* taken to block before any of its writes.  A panic and the exhaustion of *)
(* the stack (more than MaxDepth frames) are terminal as well.             *)
(***************************************************************************)
EXTENDS Integers, Sequences, FiniteSets, TLC

VARIABLES
    signals,        \* SIGNALS: key -> value
    changes,        \* SCOPE_SIGNAL_CHANGES
    currentScope,   \* CURRENT_SCOPE (None = 0)
    renderingScope, \* RENDERING_SCOPE (0 = none)
    nextScopeId,    \* NEXT_SCOPE_ID
    sigCounter,     \* SCOPE_SIGNAL_COUNTERS
    effCounter,     \* SCOPE_EFFECT_COUNTERS
    batchFlag,      \* BATCH_UPDATES
    scopeFns,       \* SCOPE_FUNCTIONS: scope -> code of the render closure
    scopeCallbacks, \* SCOPE_CALLBACKS: scope -> code of the callback
    scopeEffects,   \* SCOPE_EFFECTS: (scope, effect id) -> code of the effect
    scopeDeps,      \* SCOPE_DEPENDENCIES: scope -> set of keys
    sigDeps,        \* SIGNAL_DEPENDENCIES: key -> set of scopes
    pending,        \* PENDING_SCOPE_RENDERS
    executing,      \* EXECUTING_EFFECTS
    memoCache,      \* MEMO_CACHE: (key, scope) -> cached value
    cleanups,       \* SCOPE_EFFECT_CLEANUPS: (scope, effect id) -> code of the cleanup
    fetches,        \* the futures handed to the executor and not completed yet
    stack,          \* the call stack, bottom frame first
    status,         \* "running", "deadlock" (spinning on a held lock), "panic", "overflow"
    fuel,           \* calls the host and the batch bodies may still make
    todo,           \* render closures the host has still to mount, in order
    obs             \* observations about the host's current (or last) call

vars == <<signals, changes, currentScope, renderingScope, nextScopeId, sigCounter,
          effCounter, batchFlag, scopeFns, scopeCallbacks, scopeEffects, scopeDeps,
          sigDeps, pending, executing, memoCache, cleanups, fetches, stack, status, fuel,
          todo, obs>>

\* ------------------------------------------------------------------ bounds

\* Signal values are the integers modulo MaxVal.
MaxVal == 3
\* Scopes that may be mounted in one run.
MaxScopes == 3
\* Runtime calls the host and its batch bodies make in one run.
MaxFuel == 3
\* Frames the call stack holds before the process runs out of stack.
MaxDepth == 24
\* The elements of a vector signal are 1 .. MaxItem, and it holds up to MaxLen.
MaxItem == 2
MaxLen == 2

\* src/momenta-core/src/signals.rs:1025
MAX_ITERATIONS == 100

\* Option<usize>::None of CURRENT_SCOPE; scope ids start at 1.
None == 0

Vals == 0 .. (MaxVal - 1)

\* ResourceStatus; its values share the store with the integers.
StatusIdle == MaxVal
StatusPending == MaxVal + 1
StatusLoading == MaxVal + 2
StatusResolved == MaxVal + 3
Statuses == {StatusIdle, StatusPending, StatusLoading, StatusResolved}

\* Option<T>, the value of a resource.
OptNone == MaxVal + 4
Some(v) == MaxVal + 5 + v

\* Vec<T>: the vectors share the store with the other values; a vector is
\* stored as VecBase plus its elements read as digits, the first the lowest.
VecBase == 2 * MaxVal + 5
Items == 1 .. MaxItem
Vecs == UNION {[1 .. n -> Items] : n \in 0 .. MaxLen}
RECURSIVE Digits(_)
Digits(q) == IF q = <<>> THEN 0 ELSE Head(q) + (MaxItem + 1) * Digits(Tail(q))
Vec(q) == VecBase + Digits(q)
\* The elements of the stored vector v.
ItemsOf(v) == CHOOSE q \in Vecs : Vec(q) = v

\* The type T of a stored value, which downcast_ref::<T> tests.
TypeOf(v) ==
    IF v \in Vals THEN "int"
    ELSE IF v \in Statuses THEN "status"
    ELSE IF v < VecBase THEN "option"
    ELSE "vec"

\* ------------------------------------------------------------- finite maps

Put(f, k, v) == [x \in (DOMAIN f) \cup {k} |-> IF x = k THEN v ELSE f[x]]
Del(f, k) == [x \in (DOMAIN f) \ {k} |-> f[x]]
Cnt(f, k) == IF k \in DOMAIN f THEN f[k] ELSE 0
Bump(f, k) == Put(f, k, Cnt(f, k) + 1)
EmptyMap == [x \in {} |-> 0]

Min_Largest(S) == CHOOSE x \in S : \A y \in S : x >= y

Min(S) == CHOOSE x \in S : \A y \in S : x <= y

RECURSIVE SetToSeq(_)
\* The elements of a set of integers in ascending order (BTreeMap iteration order).
SetToSeq(S) == IF S = {} THEN <<>> ELSE <<Min(S)>> \o SetToSeq(S \ {Min(S)})

\* ---------------------------------------------------------------- closures

\* A closure is a sequence of calls into the runtime.  A call names its signal
\* by a reference: "abs" an explicit key, "loc" the k-th handle this run of the
\* closure has created, "up" the k-th handle of the closure that created this
\* one (a captured handle; resolved when the closure is created).
\* "last" is the handle the closure created last.  A handle is a Signal<T>:
\* ty is its T.
Typed(s, k, ty) == [t |-> "abs", s |-> s, k |-> k, ty |-> ty]
Abs(s, k) == Typed(s, k, "int")
Loc(k) == [t |-> "loc", s |-> 0, k |-> k, ty |-> ""]
Up(k) == [t |-> "up", s |-> 0, k |-> k, ty |-> ""]
Last == [t |-> "last", s |-> 0, k |-> 0, ty |-> ""]
NoRef == [t |-> "none", s |-> 0, k |-> 0, ty |-> ""]

\* p names the closure passed to the call and q the callback of run_scope;
\* ref2 is the second handle of a closure that captures two.
Call(o, r, v, p, q) == [op |-> o, ref |-> r, ref2 |-> NoRef, v |-> v, p |-> p, q |-> q]
CreateSignal(v) == Call("create_signal", NoRef, v, "", "")
\* create_signal(SignalInit::InitFn(p)), p returning v
CreateSignalFn(p, v) == Call("create_signal", NoRef, v, p, "")
Get(r) == Call("get", r, 0, "", "")
With(r) == Call("with", r, 0, "", "")
Set(r, v) == Call("set", r, v, "", "")
AddAssign(r) == Call("add_assign", r, 1, "", "")
\* r.push(x) and r.pop() of a Signal<Vec<T>>
Push(r, x) == Call("push", r, x, "", "")
Pop(r) == Call("pop", r, 0, "", "")
\* if r.get() == v { the next statement }
When(r, v) == Call("when", r, v, "", "")
CreateEffect(p) == Call("create_effect", NoRef, 0, p, "")
RunScope(p, q) == Call("run_scope", NoRef, 0, p, q)
Batch(p) == Call("batch", NoRef, 0, p, "")
\* create_computed(move || source.get() * 2), or create_computed(|| v) without a source
CreateComputed(r, v) == Call("create_computed", r, v, "", "")
\* create_memo(name, move || source.get() * 2)
CreateMemo(name, r) == Call("create_memo", r, 0, name, "")
\* the effect create_memo registers for the handle `target`
Rememo(r, name, target) == Call("rememo", r, 0, name, target)
\* the effect create_computed registers for the handle `target`
Recompute(r, v, target) == Call("recompute", r, v, "", target)
\* create_effect_with_cleanup(p), p returning the cleanup q
CreateEffectWithCleanup(p, q) == Call("create_effect_with_cleanup", NoRef, 0, p, q)
\* the head and the tail of the closure create_effect_with_cleanup registers:
\* the previous cleanup runs, and the cleanup the effect returned is stored
RunCleanup == Call("run_cleanup", NoRef, 0, "", "")
StoreCleanup(code) == Call("store_cleanup", NoRef, 0, "", code)
\* the body of the effect create_resource registers for (status, value)
ResourceEffect(st, val) == [Call("resource_effect", st, 0, "", "") EXCEPT !.ref2 = val]
\* create_resource(fetch), as the first statement of a render closure
CreateResource ==
    <<CreateSignal(OptNone), CreateSignal(StatusIdle), CreateEffect("resource_effect")>>
\* Resource::retry
Retry(st) == Set(st, StatusPending)

\* The closures of the runs explored.
Prog(name) ==
    CASE name = "Empty" -> <<>>
      \* a scope owning one signal, with one effect that reads it
      [] name = "Counter" -> <<CreateSignal(0), CreateEffect("ReadUp1")>>
      [] name = "ReadUp1" -> <<Get(Up(1))>>
      \* a scope owning two signals, with one effect that reads the first only
      [] name = "Pair" -> <<CreateSignal(0), CreateSignal(0), Get(Loc(2)),
                            CreateEffect("ReadUp1")>>
      \* a scope reading the first signal of scope 1
      [] name = "Reader" -> <<With(Abs(1, 1))>>
      \* two scopes whose effects write a signal the other one reads
      [] name = "PingA" -> <<CreateSignal(0), With(Abs(2, 1)), CreateEffect("IncUp1")>>
      [] name = "PingB" -> <<CreateSignal(0), With(Abs(1, 1)), CreateEffect("IncUp1")>>
      [] name = "IncUp1" -> <<AddAssign(Up(1))>>
      \* a scope that reads its signal and mounts two children: the first writes
      \* the parent's signal, the second runs an empty batch
      [] name = "Outer" -> <<CreateSignal(0), Get(Loc(1)), CreateEffect("ReadUp1"),
                             RunScope("ChildSet", "Empty"), RunScope("ChildBatch", "Empty")>>
      [] name = "ChildSet" -> <<Set(Up(1), 1)>>
      \* a parent that changes its signal and then mounts a child that reads it
      [] name = "Handoff" -> <<CreateSignal(0), Set(Loc(1), 1), RunScope("ReadUp1", "Empty")>>
      \* test_nested_scopes, the parent reading its signal before the child is mounted
      [] name = "Nest" -> <<CreateSignal(0), Get(Loc(1)), RunScope("ChildSet", "Empty")>>
      [] name = "ChildBatch" -> <<Batch("Empty")>>
      \* the documentation's computed signal: doubled = count * 2
      [] name = "Derived" -> <<CreateSignal(0), CreateComputed(Loc(1), 0)>>
      \* a computed signal whose computation reads no signal
      [] name = "Constant" -> <<CreateSignal(0), CreateComputed(NoRef, 1), Get(Loc(2))>>
      \* a scope whose render closure and effect write their signal's initial value
      [] name = "Setter" -> <<CreateSignal(0), Set(Loc(1), 0), CreateEffect("ZeroUp1")>>
      [] name = "ZeroUp1" -> <<Set(Up(1), 0)>>
      \* a scope that creates its signals in an order depending on its first
      \* signal: the handle created last has another ordinal in the next render
      [] name = "Shifty" -> <<CreateSignal(0), When(Loc(1), 0), CreateSignal(StatusIdle),
                              CreateSignal(0), With(Last), Set(Last, 1), Get(Last)>>
      \* the documentation's memo, created twice under one key
      [] name = "Memo" -> <<CreateSignal(0), CreateMemo("double_count", Loc(1)),
                            CreateMemo("double_count", Loc(1)), Get(Loc(2))>>
      \* a memo followed by an effect
      [] name = "MemoEffect" -> <<CreateSignal(0), CreateMemo("double_count", Loc(1)),
                                  CreateEffect("ReadUp1")>>
      \* a scope whose signal is initialised by a function
      [] name = "Lazy" -> <<CreateSignalFn("Empty", 1), Get(Loc(1))>>
      \* test_signal_and_effect_in_scope: an effect that reads and sets its signal
      [] name = "SelfSet" -> <<CreateSignal(0), CreateEffect("GetSetUp1")>>
      [] name = "GetSetUp1" -> <<Get(Up(1)), Set(Up(1), 1)>>
      \* a scope owning a vector, with an effect that reads it, and a scope
      \* that pops from the vector of scope 1
      [] name = "List" -> <<CreateSignal(Vec(<<>>)), CreateEffect("ReadUp1")>>
      [] name = "Popper" -> <<Pop(Typed(1, 1, "vec"))>>
      \* a scope with an effect that returns a cleanup reading its signal
      [] name = "Timer" -> <<CreateSignal(0), CreateEffectWithCleanup("ReadUp1", "ReadUp1")>>
      \* a scope owning a resource
      [] name = "Loader" -> CreateResource
      [] name = "resource_effect" -> <<ResourceEffect(Up(2), Up(1))>>
      \* a scope that mounts two children whose effects write a signal the other
      \* one reads, and then runs an empty batch: the batch drains while the
      \* scope is rendering
      [] name = "Storm" -> <<RunScope("StormA", "Empty"), RunScope("StormB", "Empty"),
                             Batch("Empty")>>
      [] name = "StormA" -> <<CreateSignal(0), With(Abs(3, 1)), CreateEffect("IncUp1")>>
      [] name = "StormB" -> <<CreateSignal(0), With(Abs(2, 1)), CreateEffect("IncUp1")>>
      \* a scope that creates its effect only while its signal is 0
      [] name = "Fewer" -> <<CreateSignal(0), When(Loc(1), 0), CreateEffect("ReadUp1")>>
      \* a scope whose effect creates a signal
      [] name = "Leaky" -> <<CreateSignal(0), Get(Loc(1)), CreateEffect("MakeSig")>>
      [] name = "MakeSig" -> <<CreateSignal(0)>>
      \* a callback, and an effect, that mount a scope
      [] name = "Mount" -> <<RunScope("Empty", "Empty")>>
      [] name = "Mounter" -> <<CreateEffect("Mount")>>

\* The render closures the host mounts in a run, in mounting order.
\* Each entry is a render closure and its callback.
Scenarios ==
    {<<<<"Counter", "Empty">>, <<"Reader", "Empty">>>>,
     <<<<"Counter", "Empty">>, <<"Reader", "Empty">>, <<"Reader", "Empty">>>>,
     <<<<"Pair", "Empty">>>>,
     <<<<"PingA", "Empty">>, <<"PingB", "Empty">>>>,
     <<<<"Outer", "Empty">>>>,
     <<<<"Nest", "Empty">>>>,
     <<<<"Handoff", "Empty">>>>,
     <<<<"Derived", "Empty">>>>,
     <<<<"Constant", "Empty">>>>,
     <<<<"Setter", "Empty">>>>,
     <<<<"Shifty", "Empty">>>>,
     <<<<"Lazy", "Empty">>>>,
     <<<<"Memo", "Empty">>>>,
     <<<<"MemoEffect", "Empty">>>>,
     <<<<"Timer", "Empty">>>>,
     <<<<"SelfSet", "Empty">>>>,
     <<<<"List", "Empty">>, <<"Popper", "Empty">>>>,
     <<<<"Loader", "Empty">>>>,
     <<<<"Fewer", "Empty">>>>,
     <<<<"Leaky", "Empty">>>>,
     <<<<"Storm", "Empty">>>>,
     <<<<"Counter", "Mount">>>>,
     <<<<"Mounter", "Empty">>>>}

\* The code of closure p created by a closure whose handles so far are h.
Capture(p, h) ==
    [i \in 1 .. Len(Prog(p)) |->
        LET c == Prog(p)[i] IN
        LET Bound(r) == IF r.t = "up" /\ r.k <= Len(h)
                        THEN Typed(h[r.k][1], h[r.k][2], h[r.k][3])
                        ELSE r
        IN  [c EXCEPT !.ref = Bound(@), !.ref2 = Bound(@)]]

\* ------------------------------------------------------------------ frames

Body(role, code, free, scope, eid) ==
    [kind |-> "body", role |-> role, code |-> code, pc |-> 1, h |-> <<>>,
     free |-> free, scope |-> scope, eid |-> eid, mark |-> nextScopeId, ret |-> 0]
\* mount: the render_scope called by run_scope, the first render of the scope;
\* wr0: the count of changes of each key when the render began.
RenderFrame(scope) ==
    [kind |-> "render", scope |-> scope, step |-> "enter", prev |-> None, was |-> 0,
     effs |-> <<>>, ran |-> FALSE, mount |-> scope = nextScopeId, wr0 |-> EmptyMap]
DrainFrame == [kind |-> "drain", iterations |-> 0]
ComputedFrame(id, o) == [kind |-> "computed", id |-> id, call |-> o]
MemoFrame(id, o) == [kind |-> "memo", id |-> id, call |-> o]
InitFrame(id, v) == [kind |-> "init", id |-> id, v |-> v]
BatchFrame == [kind |-> "batch"]
CleanupFrame == [kind |-> "cleanup"]

Top == stack[Len(stack)]
Rest == SubSeq(stack, 1, Len(stack) - 1)
Running == status = "running"
Idle == Len(stack) = 1

\* The key a reference names in frame f.
Handle(r, f) ==
    IF r.t = "loc" THEN f.h[r.k]
    ELSE IF r.t = "last" THEN f.h[Len(f.h)]
    ELSE <<r.s, r.k, r.ty>>
Key(r, f) == <<Handle(r, f)[1], Handle(r, f)[2]>>
\* The T of the handle a reference names in frame f.
Ty(r, f) == Handle(r, f)[3]

\* The key a call object addresses by an absolute reference.
KeyOf(o) == <<o.ref.s, o.ref.k>>

\* The frame with its program counter moved past the call it has just made.
Advance(f) == IF f.free THEN f ELSE [f EXCEPT !.pc = @ + 1]
Replace(f) == Rest \o <<f>>


\* ------------------------------------------------------------------- locks

\* The store locks held by the runtime functions suspended on the stack: a
\* render holds SCOPE_CALLBACKS while its callback runs and SCOPE_EFFECTS while
\* one of its effects runs; create_computed holds SIGNALS while the first
\* computation runs, and an effect with a cleanup holds SCOPE_EFFECT_CLEANUPS
\* while its previous cleanup runs.  spin::Mutex is not re-entrant: locking a held lock spins.
HeldBy(i) ==
    LET f == stack[i] IN
    IF i = Len(stack) THEN {}
    ELSE IF f.kind = "render" /\ f.step = "callback" THEN {"SCOPE_CALLBACKS"}
    ELSE IF f.kind = "render" /\ f.step = "effects" THEN {"SCOPE_EFFECTS"}
    ELSE IF f.kind \in {"computed", "init"} THEN {"SIGNALS"}
    ELSE IF f.kind = "cleanup" THEN {"SCOPE_EFFECT_CLEANUPS"}
    ELSE {}

Held == UNION {HeldBy(i) : i \in 1 .. Len(stack)}

\* The locks a call takes.
LocksOf(o) ==
    CASE o.op \in {"get", "with", "when", "resource_effect", "push", "pop"} ->
            {"CURRENT_SCOPE", "SIGNALS"} \cup
            (IF currentScope # None THEN {"SIGNAL_DEPENDENCIES", "SCOPE_DEPENDENCIES"} ELSE {})
      [] o.op = "set" -> {"SIGNALS"}
      [] o.op = "recompute" ->
            {"SIGNALS"} \cup (IF o.ref.t = "none" THEN {} ELSE {"CURRENT_SCOPE"})
      [] o.op = "add_assign" -> {"CURRENT_SCOPE", "SIGNALS"}
      [] o.op = "create_memo" ->
            {"CURRENT_SCOPE", "SCOPE_SIGNAL_COUNTERS", "MEMO_CACHE", "SIGNALS"}
      [] o.op = "rememo" -> {"CURRENT_SCOPE", "SIGNALS", "MEMO_CACHE"}
      [] o.op \in {"create_signal", "create_computed"} ->
            {"CURRENT_SCOPE", "SCOPE_SIGNAL_COUNTERS", "SIGNALS"}
      [] o.op \in {"create_effect", "create_effect_with_cleanup"} ->
            {"CURRENT_SCOPE", "SCOPE_EFFECT_COUNTERS", "SCOPE_EFFECTS"}
      [] o.op \in {"run_cleanup", "store_cleanup"} -> {"SCOPE_EFFECT_CLEANUPS"}
      [] o.op = "run_scope" -> {"NEXT_SCOPE_ID", "SCOPE_FUNCTIONS", "SCOPE_CALLBACKS"}
      [] o.op = "batch" -> {"BATCH_UPDATES"}
      [] OTHER -> {}

\* The locks the next step of the runtime function on top of the stack takes.
StepLocks(f) ==
    CASE f.kind = "render" /\ f.step = "enter" ->
            {"CURRENT_SCOPE", "RENDERING_SCOPE", "SCOPE_DEPENDENCIES", "SIGNAL_DEPENDENCIES",
             "SCOPE_SIGNAL_CHANGES", "SCOPE_FUNCTIONS"}
      [] f.kind = "render" /\ f.step = "post" -> {"SCOPE_SIGNAL_COUNTERS", "SCOPE_EFFECTS"}
      [] f.kind = "render" /\ f.step = "effects" /\ f.effs # <<>> ->
            {"EXECUTING_EFFECTS", "SCOPE_EFFECTS"}
      [] f.kind = "render" /\ f.step = "effects" /\ f.effs = <<>> ->
            {"SCOPE_EFFECT_COUNTERS", "SCOPE_SIGNAL_CHANGES", "RENDERING_SCOPE",
             "PENDING_SCOPE_RENDERS", "SIGNAL_DEPENDENCIES"}
      [] f.kind = "render" /\ f.step = "exit" -> {"CURRENT_SCOPE"}
      [] f.kind = "drain" -> {"PENDING_SCOPE_RENDERS"}
      [] OTHER -> {}

\* The locks taken when the closure on top of the stack returns to its caller.
ReturnLocks(role) ==
    CASE role = "render" -> {"SCOPE_FUNCTIONS", "SCOPE_CALLBACKS"}
      [] role = "effect" -> {"EXECUTING_EFFECTS"}
      [] role = "batch" -> {"BATCH_UPDATES"}
      [] role = "computation" -> {"CURRENT_SCOPE", "SCOPE_EFFECT_COUNTERS", "SCOPE_EFFECTS"}
      [] role = "memoization" ->
            {"MEMO_CACHE", "SIGNALS", "CURRENT_SCOPE", "SCOPE_EFFECT_COUNTERS",
             "SCOPE_EFFECTS"}
      [] OTHER -> {}

Blocks(L) == L \cap Held # {}

\* ------------------------------------------------------------ observations

NoCall == Call("none", NoRef, 0, "", "")

\* call: the host's call in progress (or the last one); rcount, ecount: runs of
\* each render closure and effect during it; chg: keys whose value a set
\* changed; need: owners and dependents of those keys at the time of the write;
\* wr: how many times each key changed; owed: the dependents not rendered
\* since; capHit: a drain stopped at the cap; fcount: invocations of each
\* memo's computation; done: the fetches completed by the executor's tasks that
\* ran one after the other with no call of the host between them (i: place in
\* the order of starting, of: fetches in flight, v: the fetcher's result).
ObsFresh(o) ==
    [call |-> o, rcount |-> EmptyMap, ecount |-> EmptyMap, chg |-> {}, wr |-> EmptyMap,
     need |-> {}, owed |-> {}, capHit |-> FALSE, fcount |-> EmptyMap, done |-> <<>>]

ObsBase(o) == IF Idle THEN ObsFresh(o) ELSE obs

\* ------------------------------------------------------------------ control

\* The stack becomes ns; the process dies when it outgrows its stack.
Go(ns) ==
    /\ stack' = ns
    /\ status' = IF Len(ns) > MaxDepth THEN "overflow" ELSE "running"

InBody == Running /\ Top.kind = "body"

\* Calls a free closure (the host, or the body of a batch) may make next.
FreeCalls ==
    {Set(Abs(k[1], k[2]), v) : k \in DOMAIN signals, v \in Vals}
        \cup {Batch("*")}
        \cup {Push(Typed(k[1], k[2], "vec"), x) :
                 k \in {y \in DOMAIN signals : /\ TypeOf(signals[y]) = "vec"
                                               /\ Len(ItemsOf(signals[y])) < MaxLen},
                 x \in Items}
        \cup {Pop(Typed(k[1], k[2], "vec")) :
                 k \in {y \in DOMAIN signals : TypeOf(signals[y]) = "vec"}}
        \cup {Retry(Typed(k[1], k[2], "status")) : k \in {x \in DOMAIN signals : signals[x] \in Statuses}}
        \cup {CreateSignal(0), CreateEffect("Empty"), CreateEffectWithCleanup("Empty", "Empty"),
              CreateComputed(NoRef, 0), CreateMemo("double_count", NoRef)}

\* Scopes a free closure may mount next.
Mounts == IF todo = <<>> THEN {} ELSE {RunScope(Head(todo)[1], Head(todo)[2])}

\* The calls the closure on top of the stack may make next.
NextCalls ==
    IF ~InBody THEN {}
    ELSE IF Top.free THEN (IF fuel > 0 THEN FreeCalls ELSE {}) \cup Mounts
    ELSE IF Top.pc <= Len(Top.code) THEN {Top.code[Top.pc]}
    ELSE {}

Spend(o) ==
    /\ fuel' = IF Top.free /\ o.op # "run_scope" THEN fuel - 1 ELSE fuel
    /\ todo' = IF Top.free /\ o.op = "run_scope" THEN Tail(todo) ELSE todo

\* The closure on top of the stack returns.
Returns(role) ==
    /\ InBody
    /\ Top.role = role
    /\ IF Top.free THEN TRUE ELSE Top.pc > Len(Top.code)
    /\ ~Blocks(ReturnLocks(role))


\* ------------------------------------------------------------ Signal::with

\* The dependency edge a read records while a scope is current.
ReadEdges_OneIndex(k) ==
    /\ sigDeps' = IF currentScope # None
                  THEN Put(sigDeps, k, (IF k \in DOMAIN sigDeps THEN sigDeps[k] ELSE {})
                                          \cup {currentScope})
                  ELSE sigDeps
    /\ scopeDeps' = scopeDeps

ReadEdges(k) ==
    IF currentScope # None
    THEN /\ sigDeps' = Put(sigDeps, k, (IF k \in DOMAIN sigDeps THEN sigDeps[k] ELSE {})
                                          \cup {currentScope})
         /\ scopeDeps' = Put(scopeDeps, currentScope,
                             (IF currentScope \in DOMAIN scopeDeps
                              THEN scopeDeps[currentScope] ELSE {}) \cup {k})
    ELSE UNCHANGED <<sigDeps, scopeDeps>>

\* The entry of key k exists and downcasts to ty: with yields Some.
Readable(k, ty) == k \in DOMAIN signals /\ TypeOf(signals[k]) = ty

\* with(f): Some(f(value)), or None when the entry is missing or of another type.
WithCall(o) ==
    /\ o.op = "with"
    /\ ~Blocks(LocksOf(o))
    /\ ReadEdges(Key(o.ref, Top))
    /\ Go(Replace(Advance(Top)))
    /\ Spend(o)
    /\ obs' = ObsBase(o)
    /\ UNCHANGED <<cleanups, fetches, memoCache, signals, changes, currentScope, renderingScope, nextScopeId, sigCounter,
                   effCounter, batchFlag, scopeFns, scopeCallbacks, scopeEffects, pending,
                   executing>>

OpWith == \E o \in NextCalls : WithCall(o)

\* get(): with(clone).unwrap() panics when with yields None.
GetCall(o) ==
    /\ o.op = "get"
    /\ ~Blocks(LocksOf(o))
    /\ ReadEdges(Key(o.ref, Top))
    /\ IF Readable(Key(o.ref, Top), Ty(o.ref, Top))
       THEN Go(Replace(Advance(Top)))
       ELSE stack' = stack /\ status' = "panic"
    /\ Spend(o)
    /\ obs' = ObsBase(o)
    /\ UNCHANGED <<cleanups, fetches, memoCache, signals, changes, currentScope, renderingScope, nextScopeId, sigCounter,
                   effCounter, batchFlag, scopeFns, scopeCallbacks, scopeEffects, pending,
                   executing>>

OpGet == \E o \in NextCalls : GetCall(o)

\* if r.get() == v { statement }: the statement is skipped on another value.
OpWhen ==
    \E o \in NextCalls :
        /\ o.op = "when"
        /\ ~Blocks(LocksOf(o))
        /\ ReadEdges(Key(o.ref, Top))
        /\ IF ~Readable(Key(o.ref, Top), Ty(o.ref, Top))
           THEN stack' = stack /\ status' = "panic"
           ELSE IF signals[Key(o.ref, Top)] = o.v
           THEN Go(Replace(Advance(Top)))
           ELSE Go(Replace(Advance(Advance(Top))))
        /\ Spend(o)
        /\ obs' = ObsBase(o)
        /\ UNCHANGED <<cleanups, fetches, memoCache, signals, changes, currentScope, renderingScope, nextScopeId, sigCounter,
                       effCounter, batchFlag, scopeFns, scopeCallbacks, scopeEffects, pending,
                       executing>>

\* ------------------------------------------------------------- Signal::set

\* The stored value is replaced only when the new value differs from it.
SetChanged_Always(k, v) == k \in DOMAIN signals

SetChanged(k, v) == Readable(k, TypeOf(v)) /\ signals[k] # v

\* A changed signal renders its owner at once only outside a batch, outside
\* any scope and outside any effect.
ShouldRenderNow_Never == FALSE
ShouldRenderNow_InBatch == currentScope = None /\ executing = {}

ShouldRenderNow == ~batchFlag /\ currentScope = None /\ executing = {}

\* The scopes holding a dependency edge on key k.
Dependents(k) == IF k \in DOMAIN sigDeps THEN sigDeps[k] ELSE {}

ObsSet(b, k, v) ==
    IF SetChanged(k, v)
    THEN [b EXCEPT !.chg = @ \cup {k},
                   !.wr = Bump(@, k),
                   !.need = @ \cup Dependents(k) \cup {k[1]},
                   !.owed = @ \cup Dependents(k)]
    ELSE b

DoSet_NoStore(k, v, base) ==
    /\ signals' = signals
    /\ changes' = IF SetChanged(k, v) THEN changes \cup {k} ELSE changes
    /\ Go(base)

\* set(v) on key k, returning to the stack `base`.
DoSet(k, v, base) ==
    /\ signals' = IF SetChanged(k, v) THEN [signals EXCEPT ![k] = v] ELSE signals
    /\ changes' = IF SetChanged(k, v) THEN changes \cup {k} ELSE changes
    /\ Go(IF SetChanged(k, v) /\ ShouldRenderNow
          THEN base \o <<RenderFrame(k[1])>>
          ELSE base)

SetCall(o) ==
    /\ o.op = "set"
    /\ ~Blocks(LocksOf(o))
    /\ DoSet(Key(o.ref, Top), o.v, Replace(Advance(Top)))
    /\ Spend(o)
    /\ obs' = ObsSet(ObsBase(o), Key(o.ref, Top), o.v)
    /\ UNCHANGED <<cleanups, fetches, memoCache, currentScope, renderingScope, nextScopeId, sigCounter, effCounter,
                   batchFlag, scopeFns, scopeCallbacks, scopeEffects, scopeDeps, sigDeps,
                   pending, executing>>

OpSet == \E o \in NextCalls : SetCall(o)

\* signal += rhs: self.set(self.get().add(rhs)).
OpAddAssign ==
    \E o \in NextCalls :
        /\ o.op = "add_assign"
        /\ ~Blocks(LocksOf(o))
        /\ ReadEdges(Key(o.ref, Top))
        /\ LET k == Key(o.ref, Top) IN
           IF Readable(k, Ty(o.ref, Top))
           THEN /\ DoSet(k, (signals[k] + o.v) % MaxVal, Replace(Advance(Top)))
                /\ obs' = ObsSet(ObsBase(o), k, (signals[k] + o.v) % MaxVal)
           ELSE /\ stack' = stack /\ status' = "panic"
                /\ obs' = ObsBase(o)
                /\ UNCHANGED <<signals, changes>>
        /\ Spend(o)
        /\ UNCHANGED <<cleanups, fetches, memoCache, currentScope, renderingScope, nextScopeId, sigCounter, effCounter,
                       batchFlag, scopeFns, scopeCallbacks, scopeEffects, pending, executing>>


\* ----------------------------------------------------- Signal<Vec<T>>

\* The vector after pop, and what pop returns (0 for None).
Shorter_Same(q) == q

Shorter(q) == IF q = <<>> THEN q ELSE SubSeq(q, 1, Len(q) - 1)
Popped(q) == IF q = <<>> THEN 0 ELSE q[Len(q)]

\* push(item): self.set of the vector self.get() returned, with item appended.
PushCall(o) ==
    /\ o.op = "push"
    /\ ~Blocks(LocksOf(o))
    /\ ReadEdges(Key(o.ref, Top))
    /\ LET k == Key(o.ref, Top) IN
       IF Readable(k, Ty(o.ref, Top))
       THEN /\ DoSet(k, Vec(Append(ItemsOf(signals[k]), o.v)), Replace(Advance(Top)))
            /\ obs' = ObsSet(ObsBase(o), k, Vec(Append(ItemsOf(signals[k]), o.v)))
       ELSE /\ stack' = stack /\ status' = "panic"
            /\ obs' = ObsBase(o)
            /\ UNCHANGED <<signals, changes>>
    /\ Spend(o)
    /\ UNCHANGED <<cleanups, fetches, memoCache, currentScope, renderingScope, nextScopeId,
                   sigCounter, effCounter, batchFlag, scopeFns, scopeCallbacks, scopeEffects,
                   pending, executing>>

OpPush == \E o \in NextCalls : PushCall(o)

\* pop(): self.set of the vector self.get() returned, without its last
\* element, which is the result.
PopCall(o) ==
    /\ o.op = "pop"
    /\ ~Blocks(LocksOf(o))
    /\ ReadEdges(Key(o.ref, Top))
    /\ LET k == Key(o.ref, Top) IN
       IF Readable(k, Ty(o.ref, Top))
       THEN /\ DoSet(k, Vec(Shorter(ItemsOf(signals[k]))),
                     Replace([Advance(Top) EXCEPT !.ret = Popped(ItemsOf(signals[k]))]))
            /\ obs' = ObsSet(ObsBase(o), k, Vec(Shorter(ItemsOf(signals[k]))))
       ELSE /\ stack' = stack /\ status' = "panic"
            /\ obs' = ObsBase(o)
            /\ UNCHANGED <<signals, changes>>
    /\ Spend(o)
    /\ UNCHANGED <<cleanups, fetches, memoCache, currentScope, renderingScope, nextScopeId,
                   sigCounter, effCounter, batchFlag, scopeFns, scopeCallbacks, scopeEffects,
                   pending, executing>>

OpPop == \E o \in NextCalls : PopCall(o)

\* ---------------------------------------------------------------- creation

\* get_current_scope() is None: the creating call panics.
OutsideScope_Never == FALSE

OutsideScope == currentScope = None

\* signals.get(&signal.id).is_none()
Vacant_Always(id) == TRUE

Vacant_Never(id) == FALSE

Vacant(id) == id \notin DOMAIN signals

\* The key create_signal, create_computed and create_memo give their signal.
NextSignalId == <<currentScope, Cnt(sigCounter, currentScope) + 1>>

\* create_signal(init): the next signal ordinal of the current scope; an
\* existing entry keeps its value; otherwise the value, or the result of the
\* initializer function called with SIGNALS locked, is stored.  Panics outside
\* a scope.
CreateSignalCall(o) ==
    /\ o.op = "create_signal"
    /\ ~Blocks(LocksOf(o))
    /\ IF OutsideScope
       THEN /\ stack' = stack /\ status' = "panic"
            /\ UNCHANGED <<sigCounter, signals>>
       ELSE LET id == NextSignalId
                caller == [Advance(Top) EXCEPT
                              !.h = Append(@, <<id[1], id[2], TypeOf(o.v)>>)]
            IN  /\ sigCounter' = Bump(sigCounter, currentScope)
                /\ IF ~Vacant(id)
                   THEN signals' = signals /\ Go(Replace(caller))
                   ELSE IF o.p = ""
                   THEN signals' = Put(signals, id, o.v) /\ Go(Replace(caller))
                   ELSE /\ signals' = signals
                        /\ Go(Replace(Advance(Top)) \o
                              <<InitFrame(id, o.v),
                                Body("init", Capture(o.p, Top.h), FALSE, currentScope,
                                     <<0, 0>>)>>)
    /\ Spend(o)
    /\ obs' = ObsBase(o)
    /\ UNCHANGED <<cleanups, fetches, memoCache, changes, currentScope, renderingScope, nextScopeId, effCounter, batchFlag,
                   scopeFns, scopeCallbacks, scopeEffects, scopeDeps, sigDeps, pending,
                   executing>>

OpCreateSignal == \E o \in NextCalls : CreateSignalCall(o)

\* The initializer function has returned: its value is stored.
InitReturn ==
    /\ Returns("init")
    /\ LET f == stack[Len(stack) - 1]
           caller == stack[Len(stack) - 2]
       IN  /\ signals' = Put(signals, f.id, f.v)
           /\ Go(SubSeq(stack, 1, Len(stack) - 3) \o
                 <<[caller EXCEPT !.h = Append(@, <<f.id[1], f.id[2], TypeOf(f.v)>>)]>>)
    /\ UNCHANGED <<cleanups, fetches, memoCache, changes, currentScope, renderingScope, nextScopeId, sigCounter, effCounter,
                   batchFlag, scopeFns, scopeCallbacks, scopeEffects, scopeDeps, sigDeps,
                   pending, executing, fuel, todo, obs>>

\* create_effect(f): registers f under the next effect ordinal of the current
\* scope.  Panics outside a scope.
CreateEffectCall(o) ==
    /\ o.op = "create_effect"
    /\ ~Blocks(LocksOf(o))
    /\ IF OutsideScope
       THEN /\ stack' = stack /\ status' = "panic"
            /\ UNCHANGED <<effCounter, scopeEffects>>
       ELSE LET id == <<currentScope, Cnt(effCounter, currentScope) + 1>> IN
            /\ effCounter' = Bump(effCounter, currentScope)
            /\ scopeEffects' = Put(scopeEffects, id, Capture(o.p, Top.h))
            /\ Go(Replace(Advance(Top)))
    /\ Spend(o)
    /\ obs' = ObsBase(o)
    /\ UNCHANGED <<cleanups, fetches, memoCache, signals, changes, currentScope, renderingScope, nextScopeId, sigCounter,
                   batchFlag, scopeFns, scopeCallbacks, scopeDeps, sigDeps, pending,
                   executing>>

OpCreateEffect == \E o \in NextCalls : CreateEffectCall(o)

\* run_scope(scope_fn, callback): a fresh scope id, the two closures stored,
\* then render_scope(scope_id).
OpRunScope ==
    \E o \in NextCalls :
        /\ o.op = "run_scope"
        /\ nextScopeId <= MaxScopes
        /\ ~Blocks(LocksOf(o))
        /\ nextScopeId' = nextScopeId + 1
        /\ scopeFns' = Put(scopeFns, nextScopeId, Capture(o.p, Top.h))
        /\ scopeCallbacks' = Put(scopeCallbacks, nextScopeId, Capture(o.q, Top.h))
        /\ Go(Replace(Advance(Top)) \o <<RenderFrame(nextScopeId)>>)
        /\ Spend(o)
        /\ obs' = ObsBase(o)
        /\ UNCHANGED <<cleanups, fetches, memoCache, signals, changes, currentScope, renderingScope, sigCounter, effCounter,
                       batchFlag, scopeEffects, scopeDeps, sigDeps, pending, executing>>

\* --------------------------------------------------------- create_computed

\* The value of the computation: the source doubled, or the constant.
Computation(o) ==
    IF o.ref.t = "none" THEN o.v
    ELSE IF Readable(<<o.ref.s, o.ref.k>>, "int")
         THEN (signals[<<o.ref.s, o.ref.k>>] * 2) % MaxVal
         ELSE 0

\* create_computed(c): the next signal ordinal; SIGNALS is locked and the
\* computation runs.  Panics outside a scope.
CreateComputedCall(o) ==
    /\ o.op = "create_computed"
    /\ ~Blocks(LocksOf(o))
    /\ IF OutsideScope
       THEN /\ stack' = stack /\ status' = "panic"
            /\ UNCHANGED sigCounter
       ELSE LET id == <<currentScope, Cnt(sigCounter, currentScope) + 1>>
                src == IF o.ref.t = "none" THEN o.ref
                       ELSE Abs(Key(o.ref, Top)[1], Key(o.ref, Top)[2])
            IN  /\ sigCounter' = Bump(sigCounter, currentScope)
                /\ Go(Replace(Advance(Top)) \o
                      <<ComputedFrame(id, [o EXCEPT !.ref = src]),
                        Body("computation",
                             IF src.t = "none" THEN <<>> ELSE <<Get(src)>>,
                             FALSE, currentScope, <<0, 0>>)>>)
    /\ Spend(o)
    /\ obs' = ObsBase(o)
    /\ UNCHANGED <<cleanups, fetches, memoCache, signals, changes, currentScope, renderingScope, nextScopeId, effCounter,
                   batchFlag, scopeFns, scopeCallbacks, scopeEffects, scopeDeps, sigDeps,
                   pending, executing>>

OpCreateComputed == \E o \in NextCalls : CreateComputedCall(o)

\* The computation has returned: its value is stored (replacing any stored
\* value) and the recomputing effect is registered with create_effect.
ComputedReturn ==
    /\ Returns("computation")
    /\ LET f == stack[Len(stack) - 1]
           caller == stack[Len(stack) - 2]
           eid == <<currentScope, Cnt(effCounter, currentScope) + 1>>
       IN  /\ signals' = Put(signals, f.id, Computation(f.call))
           /\ effCounter' = Bump(effCounter, currentScope)
           /\ scopeEffects' = Put(scopeEffects, eid,
                                  <<Recompute(f.call.ref, f.call.v, f.id)>>)
           /\ Go(SubSeq(stack, 1, Len(stack) - 3) \o
                 <<[caller EXCEPT !.h = Append(@, <<f.id[1], f.id[2], "int">>)]>>)
    /\ UNCHANGED <<cleanups, fetches, memoCache, changes, currentScope, renderingScope, nextScopeId, sigCounter, batchFlag,
                   scopeFns, scopeCallbacks, scopeDeps, sigDeps, pending, executing, fuel,
                   todo, obs>>

\* The effect of a computed signal: the computation runs again and its value
\* is set.
OpRecompute ==
    \E o \in NextCalls :
        /\ o.op = "recompute"
        /\ ~Blocks(LocksOf(o))
        /\ IF o.ref.t = "none"
           THEN UNCHANGED <<sigDeps, scopeDeps>>
           ELSE ReadEdges(<<o.ref.s, o.ref.k>>)
        /\ IF o.ref.t = "none" \/ Readable(<<o.ref.s, o.ref.k>>, "int")
           THEN /\ DoSet(o.q, Computation(o), Replace(Advance(Top)))
                /\ obs' = ObsSet(ObsBase(o), o.q, Computation(o))
           ELSE /\ stack' = stack /\ status' = "panic"
                /\ obs' = ObsBase(o)
                /\ UNCHANGED <<signals, changes>>
        /\ Spend(o)
        /\ UNCHANGED <<cleanups, fetches, memoCache, currentScope, renderingScope, nextScopeId, sigCounter, effCounter,
                       batchFlag, scopeFns, scopeCallbacks, scopeEffects, pending, executing>>

\* ------------------------------------------------------------- create_memo

\* format!("{}-{}", key, scope_id)
CacheKey(name, scope_id) == <<name, scope_id>>

\* A cache entry: the cached value; src, id and seen record the signal the
\* computation reads, the memo's signal and the value the computation read
\* when it ran last.
CacheEntry(value, o, id, seen) == [value |-> value, src |-> o.ref, id |-> id, seen |-> seen]

\* create_memo(key, c): the next signal ordinal; a cached value is stored under
\* it and the call returns; otherwise the computation runs, no lock held.
\* Panics outside a scope.
CreateMemoCall(o) ==
    /\ o.op = "create_memo"
    /\ ~Blocks(LocksOf(o))
    /\ IF OutsideScope
       THEN /\ stack' = stack /\ status' = "panic"
            /\ obs' = ObsBase(o)
            /\ UNCHANGED <<sigCounter, signals>>
       ELSE LET id == NextSignalId
                ck == CacheKey(o.p, currentScope)
                src == Typed(Key(o.ref, Top)[1], Key(o.ref, Top)[2], Ty(o.ref, Top))
            IN  /\ sigCounter' = Bump(sigCounter, currentScope)
                /\ IF ck \in DOMAIN memoCache
                   THEN /\ signals' = Put(signals, id, memoCache[ck].value)
                        /\ Go(Replace([Advance(Top) EXCEPT
                                          !.h = Append(@, <<id[1], id[2], "int">>)]))
                        /\ obs' = ObsBase(o)
                   ELSE /\ signals' = signals
                        /\ Go(Replace(Advance(Top)) \o
                              <<MemoFrame(id, [o EXCEPT !.ref = src]),
                                Body("memoization", <<Get(src)>>, FALSE, currentScope,
                                     <<0, 0>>)>>)
                        /\ obs' = [ObsBase(o) EXCEPT !.fcount = Bump(@, ck)]
    /\ Spend(o)
    /\ UNCHANGED <<cleanups, fetches, memoCache, changes, currentScope, renderingScope, nextScopeId, effCounter,
                   batchFlag, scopeFns, scopeCallbacks, scopeEffects, scopeDeps, sigDeps,
                   pending, executing>>

OpCreateMemo == \E o \in NextCalls : CreateMemoCall(o)

\* The computation has returned: its value is cached and stored, and the
\* recomputing effect is registered with create_effect.
MemoReturn ==
    /\ Returns("memoization")
    /\ LET f == stack[Len(stack) - 1]
           caller == stack[Len(stack) - 2]
           eid == <<currentScope, Cnt(effCounter, currentScope) + 1>>
           ck == CacheKey(f.call.p, currentScope)
           value == Computation(f.call)
       IN  /\ memoCache' = Put(memoCache, ck,
                               CacheEntry(value, f.call, f.id, signals[KeyOf(f.call)]))
           /\ signals' = Put(signals, f.id, value)
           /\ effCounter' = Bump(effCounter, currentScope)
           /\ scopeEffects' = Put(scopeEffects, eid, <<Rememo(f.call.ref, f.call.p, f.id)>>)
           /\ Go(SubSeq(stack, 1, Len(stack) - 3) \o
                 <<[caller EXCEPT !.h = Append(@, <<f.id[1], f.id[2], "int">>)]>>)
    /\ UNCHANGED <<cleanups, fetches, changes, currentScope, renderingScope, nextScopeId,
                   sigCounter, batchFlag, scopeFns, scopeCallbacks, scopeDeps, sigDeps,
                   pending, executing, fuel, todo, obs>>

\* The effect of a memo: the computation runs again, its value is cached and set.
RememoCall(o) ==
    /\ o.op = "rememo"
    /\ ~Blocks(LocksOf(o))
    /\ ReadEdges(KeyOf(o))
    /\ IF Readable(KeyOf(o), "int")
       THEN /\ memoCache' = Put(memoCache, CacheKey(o.p, o.q[1]),
                                CacheEntry(Computation(o), o, o.q, signals[KeyOf(o)]))
            /\ DoSet(o.q, Computation(o), Replace(Advance(Top)))
            /\ obs' = [ObsSet(ObsBase(o), o.q, Computation(o)) EXCEPT
                          !.fcount = Bump(@, CacheKey(o.p, o.q[1]))]
       ELSE /\ stack' = stack /\ status' = "panic"
            /\ obs' = ObsBase(o)
            /\ UNCHANGED <<memoCache, signals, changes>>
    /\ Spend(o)
    /\ UNCHANGED <<cleanups, fetches, currentScope, renderingScope, nextScopeId, sigCounter, effCounter,
                   batchFlag, scopeFns, scopeCallbacks, scopeEffects, pending, executing>>

OpRememo == \E o \in NextCalls : RememoCall(o)

\* ------------------------------------------------------------------- batch

\* batch(f): the flag is set and f runs.
OpBatch ==
    \E o \in NextCalls :
        /\ o.op = "batch"
        /\ ~Blocks(LocksOf(o))
        /\ batchFlag' = TRUE
        /\ Go(Replace(Advance(Top)) \o
              <<BatchFrame,
                Body("batch", IF o.p = "*" THEN <<>> ELSE Capture(o.p, Top.h), o.p = "*",
                     currentScope, <<0, 0>>)>>)
        /\ Spend(o)
        /\ obs' = ObsBase(o)
        /\ UNCHANGED <<cleanups, fetches, memoCache, signals, changes, currentScope, renderingScope, nextScopeId, sigCounter,
                       effCounter, scopeFns, scopeCallbacks, scopeEffects, scopeDeps, sigDeps,
                       pending, executing>>

\* f has returned: the flag is cleared and the pending renders are processed.
BatchReturn ==
    /\ Returns("batch")
    /\ batchFlag' = FALSE
    /\ Go(SubSeq(stack, 1, Len(stack) - 2) \o <<DrainFrame>>)
    /\ UNCHANGED <<cleanups, fetches, memoCache, signals, changes, currentScope, renderingScope, nextScopeId, sigCounter,
                   effCounter, scopeFns, scopeCallbacks, scopeEffects, scopeDeps, sigDeps,
                   pending, executing, fuel, todo, obs>>

\* ------------------------------------------------------------ render_scope

scope_has_signal_changes_EdgesOnly(scope_id) ==
    \E k \in DOMAIN sigDeps : scope_id \in sigDeps[k]

scope_has_signal_changes(scope_id) ==
    \/ scope_id \notin DOMAIN scopeDeps
    \/ \E k \in DOMAIN sigDeps : scope_id \in sigDeps[k]

\* The dependency indices with the edges of a scope cleared.
ClearedSigDeps_Kept(scope_id) == sigDeps

ClearedSigDeps(scope_id) ==
    [k \in DOMAIN sigDeps |->
        IF scope_id \in DOMAIN scopeDeps /\ k \in scopeDeps[scope_id]
        THEN sigDeps[k] \ {scope_id}
        ELSE sigDeps[k]]

AtStep(kind, step) == Running /\ Top.kind = kind /\ Top.step = step /\ ~Blocks(StepLocks(Top))

\* The re-entrancy check: a scope that is the rendering scope is not rendered.
AlreadyRendering(scope_id) == renderingScope = scope_id

\* render_scope up to the call of the render closure.
RenderEnter ==
    /\ AtStep("render", "enter")
    /\ LET s == Top.scope IN
       IF AlreadyRendering(s) \/ ~scope_has_signal_changes(s)
       THEN /\ Go(Rest)
            /\ UNCHANGED <<currentScope, renderingScope, changes, scopeDeps, sigDeps,
                           scopeFns, obs>>
       ELSE /\ currentScope' = s
            /\ renderingScope' = s
            /\ changes' = {c \in changes : c[1] # s}
            /\ IF renderingScope = 0
               THEN /\ scopeDeps' = Del(scopeDeps, s)
                    /\ sigDeps' = ClearedSigDeps(s)
               ELSE UNCHANGED <<scopeDeps, sigDeps>>
            /\ scopeFns' = Del(scopeFns, s)
            /\ LET f == [Top EXCEPT !.prev = currentScope, !.was = renderingScope,
                                    !.wr0 = obs.wr,
                                    !.ran = s \in DOMAIN scopeFns,
                                    !.step = IF s \in DOMAIN scopeFns THEN "body" ELSE "post"]
               IN  IF s \in DOMAIN scopeFns
                   THEN /\ Go(Replace(f) \o <<Body("render", scopeFns[s], FALSE, s, <<0, 0>>)>>)
                        /\ obs' = [obs EXCEPT !.rcount = Bump(@, s), !.owed = @ \ {s}]
                   ELSE /\ Go(Replace(f))
                        /\ obs' = obs
    /\ UNCHANGED <<cleanups, fetches, memoCache, signals, nextScopeId, sigCounter, effCounter, batchFlag, scopeCallbacks,
                   scopeEffects, pending, executing, fuel, todo>>

\* The render closure has returned: it is stored again and the callback runs.
RenderBodyReturn ==
    /\ Returns("render")
    /\ LET f == stack[Len(stack) - 1]
           s == f.scope
           below == SubSeq(stack, 1, Len(stack) - 2)
       IN  /\ scopeFns' = Put(scopeFns, s, Top.code)
           /\ IF s \in DOMAIN scopeCallbacks
              THEN Go(below \o <<[f EXCEPT !.step = "callback"],
                                 Body("callback", scopeCallbacks[s], FALSE, s, <<0, 0>>)>>)
              ELSE Go(below \o <<[f EXCEPT !.step = "post"]>>)
    /\ UNCHANGED <<cleanups, fetches, memoCache, signals, changes, currentScope, renderingScope, nextScopeId, sigCounter,
                   effCounter, batchFlag, scopeCallbacks, scopeEffects, scopeDeps, sigDeps,
                   pending, executing, fuel, todo, obs>>

CallbackReturn ==
    /\ Returns("callback")
    /\ Go(SubSeq(stack, 1, Len(stack) - 2) \o <<[stack[Len(stack) - 1] EXCEPT !.step = "post"]>>)
    /\ UNCHANGED <<cleanups, fetches, memoCache, signals, changes, currentScope, renderingScope, nextScopeId, sigCounter,
                   effCounter, batchFlag, scopeFns, scopeCallbacks, scopeEffects, scopeDeps,
                   sigDeps, pending, executing, fuel, todo, obs>>

\* The effect ordinals of a scope in the registry, ascending.
EffectIds(scope_id) == SetToSeq({e[2] : e \in {x \in DOMAIN scopeEffects : x[1] = scope_id}})

\* reset_signal_counters, then run_scope_effects collects the scope's effects.
RenderPost ==
    /\ AtStep("render", "post")
    /\ sigCounter' = Del(sigCounter, Top.scope)
    /\ Go(Replace([Top EXCEPT !.step = "effects", !.effs = EffectIds(Top.scope)]))
    /\ UNCHANGED <<cleanups, fetches, memoCache, signals, changes, currentScope, renderingScope, nextScopeId, effCounter,
                   batchFlag, scopeFns, scopeCallbacks, scopeEffects, scopeDeps, sigDeps,
                   pending, executing, fuel, todo, obs>>

\* The next effect runs, unless it is executing already.
EffectStart ==
    /\ AtStep("render", "effects")
    /\ Top.effs # <<>>
    /\ LET id == <<Top.scope, Head(Top.effs)>> IN
       IF id \in executing
       THEN /\ Go(Replace([Top EXCEPT !.effs = Tail(@)]))
            /\ UNCHANGED <<executing, obs>>
       ELSE /\ executing' = executing \cup {id}
            /\ Go(stack \o <<Body("effect", scopeEffects[id], FALSE, Top.scope, id)>>)
            /\ obs' = [obs EXCEPT !.ecount = Bump(@, id)]
    /\ UNCHANGED <<cleanups, fetches, memoCache, signals, changes, currentScope, renderingScope, nextScopeId, sigCounter,
                   effCounter, batchFlag, scopeFns, scopeCallbacks, scopeEffects, scopeDeps,
                   sigDeps, pending, fuel, todo>>

\* executing.remove(&effect_id)
Finished_Kept(id) == executing

Finished(id) == executing \ {id}

\* The effect has returned: it is executing no more.
EffectReturn ==
    /\ Returns("effect")
    /\ executing' = Finished(Top.eid)
    /\ Go(SubSeq(stack, 1, Len(stack) - 2) \o
          <<[stack[Len(stack) - 1] EXCEPT !.effs = Tail(@)]>>)
    /\ UNCHANGED <<cleanups, fetches, memoCache, signals, changes, currentScope, renderingScope, nextScopeId, sigCounter,
                   effCounter, batchFlag, scopeFns, scopeCallbacks, scopeEffects, scopeDeps,
                   sigDeps, pending, fuel, todo, obs>>

\* The scopes queued by a render of scope_id that recorded the changes `taken`.
Queued_WithSelf(scope_id, taken) == UNION {Dependents(k) : k \in taken}

Queued(scope_id, taken) ==
    {d \in UNION {Dependents(k) : k \in taken} : d # scope_id}

\* The effects are done: the change record is consumed, the dependents are
\* queued, and a top-level render drains the queue.
RenderSettle ==
    /\ AtStep("render", "effects")
    /\ Top.effs = <<>>
    /\ effCounter' = Del(effCounter, Top.scope)
    /\ changes' = {}
    /\ renderingScope' = Top.was
    /\ pending' = pending \cup Queued(Top.scope, changes)
    /\ IF changes # {} /\ Top.was = 0
       THEN /\ Go(Replace([Top EXCEPT !.step = "exit"]) \o <<DrainFrame>>)
            /\ UNCHANGED currentScope
       ELSE /\ Go(Rest)
            /\ currentScope' = Top.prev
    /\ UNCHANGED <<cleanups, fetches, memoCache, signals, nextScopeId, sigCounter, batchFlag, scopeFns, scopeCallbacks,
                   scopeEffects, scopeDeps, sigDeps, executing, fuel, todo, obs>>

\* render_scope returns after its drain; the guard restores the current scope.
RenderExit ==
    /\ AtStep("render", "exit")
    /\ currentScope' = Top.prev
    /\ Go(Rest)
    /\ UNCHANGED <<cleanups, fetches, memoCache, signals, changes, renderingScope, nextScopeId, sigCounter, effCounter,
                   batchFlag, scopeFns, scopeCallbacks, scopeEffects, scopeDeps, sigDeps,
                   pending, executing, fuel, todo, obs>>

\* --------------------------------------------------- process_pending_renders

\* The loop breaks when its count of iterations, the current one included,
\* reaches the cap.
CapReached_Late(n) == n >= MAX_ITERATIONS + 2

CapReached(n) == n >= MAX_ITERATIONS

\* One turn of the loop: the lowest pending scope is removed and rendered,
\* unless the iteration cap is reached.
DrainStep ==
    /\ Running
    /\ Top.kind = "drain"
    /\ ~Blocks(StepLocks(Top))
    /\ IF pending = {}
       THEN /\ Go(Rest)
            /\ UNCHANGED <<pending, obs>>
       ELSE /\ pending' = pending \ {Min(pending)}
            /\ IF CapReached(Top.iterations + 1)
               THEN /\ Go(Rest)
                    /\ obs' = [obs EXCEPT !.capHit = TRUE]
               ELSE /\ Go(Replace([Top EXCEPT !.iterations = @ + 1]) \o
                          <<RenderFrame(Min(pending))>>)
                    /\ obs' = obs
    /\ UNCHANGED <<cleanups, fetches, memoCache, signals, changes, currentScope, renderingScope, nextScopeId, sigCounter,
                   effCounter, batchFlag, scopeFns, scopeCallbacks, scopeEffects, scopeDeps,
                   sigDeps, executing, fuel, todo>>

\* ------------------------------------------------ create_effect_with_cleanup

\* create_effect_with_cleanup(effect): registers, under the next effect ordinal
\* of the current scope, a closure that runs the stored cleanup, runs effect
\* and stores the cleanup it returned.  Panics outside a scope.
CreateEffectWithCleanupCall(o) ==
    /\ o.op = "create_effect_with_cleanup"
    /\ ~Blocks(LocksOf(o))
    /\ IF OutsideScope
       THEN /\ stack' = stack /\ status' = "panic"
            /\ UNCHANGED <<effCounter, scopeEffects>>
       ELSE LET id == <<currentScope, Cnt(effCounter, currentScope) + 1>> IN
            /\ effCounter' = Bump(effCounter, currentScope)
            /\ scopeEffects' = Put(scopeEffects, id,
                                   <<RunCleanup>> \o Capture(o.p, Top.h) \o
                                   <<StoreCleanup(Capture(o.q, Top.h))>>)
            /\ Go(Replace(Advance(Top)))
    /\ Spend(o)
    /\ obs' = ObsBase(o)
    /\ UNCHANGED <<cleanups, fetches, memoCache, signals, changes, currentScope,
                   renderingScope, nextScopeId, sigCounter, batchFlag, scopeFns,
                   scopeCallbacks, scopeDeps, sigDeps, pending, executing>>

OpCreateEffectWithCleanup == \E o \in NextCalls : CreateEffectWithCleanupCall(o)

\* cleanups.remove(&effect_id_tuple)
Taken_Kept(id) == cleanups

Taken(id) == Del(cleanups, id)

\* The stored cleanup of the running effect is removed and called, with
\* SCOPE_EFFECT_CLEANUPS locked.
OpRunCleanup ==
    \E o \in NextCalls :
        /\ o.op = "run_cleanup"
        /\ ~Blocks(LocksOf(o))
        /\ IF Top.eid \in DOMAIN cleanups
           THEN /\ cleanups' = Taken(Top.eid)
                /\ Go(Replace(Advance(Top)) \o
                      <<CleanupFrame,
                        Body("cleanup", cleanups[Top.eid], FALSE, Top.scope, Top.eid)>>)
           ELSE /\ cleanups' = cleanups
                /\ Go(Replace(Advance(Top)))
        /\ Spend(o)
        /\ UNCHANGED <<fetches, memoCache, signals, changes, currentScope, renderingScope,
                       nextScopeId, sigCounter, effCounter, batchFlag, scopeFns,
                       scopeCallbacks, scopeEffects, scopeDeps, sigDeps, pending, executing,
                       obs>>

\* The cleanup has returned.
CleanupReturn ==
    /\ Returns("cleanup")
    /\ Go(SubSeq(stack, 1, Len(stack) - 2))
    /\ UNCHANGED <<cleanups, fetches, memoCache, signals, changes, currentScope,
                   renderingScope, nextScopeId, sigCounter, effCounter, batchFlag, scopeFns,
                   scopeCallbacks, scopeEffects, scopeDeps, sigDeps, pending, executing,
                   fuel, todo, obs>>

\* The cleanup the effect returned is stored.
OpStoreCleanup ==
    \E o \in NextCalls :
        /\ o.op = "store_cleanup"
        /\ ~Blocks(LocksOf(o))
        /\ cleanups' = Put(cleanups, Top.eid, o.q)
        /\ Go(Replace(Advance(Top)))
        /\ Spend(o)
        /\ UNCHANGED <<fetches, memoCache, signals, changes, currentScope, renderingScope,
                       nextScopeId, sigCounter, effCounter, batchFlag, scopeFns,
                       scopeCallbacks, scopeEffects, scopeDeps, sigDeps, pending, executing,
                       obs>>

\* ---------------------------------------------------------------- resource

\* The statuses in which the effect of a resource starts a fetch.
Due_Never(s) == FALSE

Due(s) == s \in {StatusIdle, StatusPending}

\* The effect of a resource: when the status is Idle or Pending it becomes
\* Loading and the fetch is handed to the executor (spawn_local).
ResourceEffectCall(o) ==
    /\ o.op = "resource_effect"
    /\ ~Blocks(LocksOf(o))
    /\ ReadEdges(Key(o.ref, Top))
    /\ LET k == Key(o.ref, Top) IN
       IF ~Readable(k, Ty(o.ref, Top))
       THEN /\ stack' = stack /\ status' = "panic"
            /\ obs' = ObsBase(o)
            /\ UNCHANGED <<signals, changes, fetches>>
       ELSE IF Due(signals[k])
       THEN /\ DoSet(k, StatusLoading, Replace(Advance(Top)))
            /\ fetches' = Append(fetches, [value |-> o.ref2, status |-> o.ref])
            /\ obs' = ObsSet(ObsBase(o), k, StatusLoading)
       ELSE /\ Go(Replace(Advance(Top)))
            /\ obs' = ObsBase(o)
            /\ UNCHANGED <<signals, changes, fetches>>
    /\ Spend(o)
    /\ UNCHANGED <<cleanups, memoCache, currentScope, renderingScope, nextScopeId,
                   sigCounter, effCounter, batchFlag, scopeFns, scopeCallbacks, scopeEffects,
                   pending, executing>>

OpResourceEffect == \E o \in NextCalls : ResourceEffectCall(o)

\* The executor's task of a completed fetch.
Task == Call("task", NoRef, 0, "", "")

\* The code that follows fetcher().await in the future of fetch f, the fetcher
\* having returned v.
Completion(f, v) == <<Set(f.value, Some(v)), Set(f.status, StatusResolved)>>

\* The fetches in flight once the i-th has completed: the others are untouched.
Remaining_None(i) == <<>>

Remaining(i) == SubSeq(fetches, 1, i - 1) \o SubSeq(fetches, i + 1, Len(fetches))

\* A fetch completes: the executor, which runs its tasks while the host is
\* idle, resumes the future, which sets the value and then the status.
FetchComplete ==
    /\ Running /\ Idle
    /\ \E i \in 1 .. Len(fetches), v \in Vals :
        /\ fetches' = Remaining(i)
        /\ Go(stack \o <<Body("task", Completion(fetches[i], v), FALSE, None, <<0, 0>>)>>)
        /\ obs' = [ObsFresh(Task) EXCEPT
                      !.done = (IF obs.call = Task THEN obs.done ELSE <<>>) \o
                               <<[i |-> i, of |-> Len(fetches), v |-> v]>>]
    /\ UNCHANGED <<cleanups, memoCache, signals, changes, currentScope, renderingScope,
                   nextScopeId, sigCounter, effCounter, batchFlag, scopeFns, scopeCallbacks,
                   scopeEffects, scopeDeps, sigDeps, pending, executing, fuel, todo>>

\* The future has run to its end.
TaskReturn ==
    /\ Returns("task")
    /\ Go(Rest)
    /\ UNCHANGED <<cleanups, fetches, memoCache, signals, changes, currentScope,
                   renderingScope, nextScopeId, sigCounter, effCounter, batchFlag, scopeFns,
                   scopeCallbacks, scopeEffects, scopeDeps, sigDeps, pending, executing,
                   fuel, todo, obs>>

\* ----------------------------------------------------------- specification

\* The calls of Signal that read through with.
ReadOps == {"with", "get", "when", "add_assign", "push", "pop"}

\* A call or a step that needs a lock held further down the stack spins
\* forever.  A read spins on SIGNALS, its dependency edges recorded already.
Deadlock ==
    /\ Running
    /\ \/ \E o \in NextCalls : Blocks(LocksOf(o))
       \/ Top.kind = "body" /\ (IF Top.free THEN Top.role # "host" ELSE Top.pc > Len(Top.code))
            /\ Blocks(ReturnLocks(Top.role))
       \/ Top.kind # "body" /\ Blocks(StepLocks(Top))
    /\ status' = "deadlock"
    /\ IF \E o \in NextCalls : Blocks(LocksOf(o)) /\ o.op \in ReadOps /\ ~Top.free
       THEN ReadEdges(Key(Top.code[Top.pc].ref, Top))
       ELSE UNCHANGED <<scopeDeps, sigDeps>>
    /\ UNCHANGED <<cleanups, fetches, memoCache, signals, changes, currentScope, renderingScope, nextScopeId, sigCounter,
                   effCounter, batchFlag, scopeFns, scopeCallbacks, scopeEffects,
                   pending, executing, stack, fuel, todo, obs>>

Init ==
    /\ signals = EmptyMap
    /\ changes = {}
    /\ currentScope = None
    /\ renderingScope = 0
    /\ nextScopeId = 1
    /\ sigCounter = EmptyMap
    /\ effCounter = EmptyMap
    /\ batchFlag = FALSE
    /\ scopeFns = EmptyMap
    /\ scopeCallbacks = EmptyMap
    /\ scopeEffects = EmptyMap
    /\ scopeDeps = EmptyMap
    /\ sigDeps = EmptyMap
    /\ pending = {}
    /\ executing = {}
    /\ memoCache = EmptyMap
    /\ cleanups = EmptyMap
    /\ fetches = <<>>
    /\ stack = <<Body("host", <<>>, TRUE, None, <<0, 0>>)>>
    /\ status = "running"
    /\ fuel = MaxFuel
    /\ todo \in Scenarios
    /\ obs = ObsFresh(NoCall)

Next ==
    \/ OpWith
    \/ OpGet
    \/ OpWhen
    \/ OpSet
    \/ OpAddAssign
    \/ OpPush
    \/ OpPop
    \/ OpCreateSignal
    \/ InitReturn
    \/ OpCreateEffect
    \/ OpCreateEffectWithCleanup
    \/ OpRunCleanup
    \/ CleanupReturn
    \/ OpStoreCleanup
    \/ OpResourceEffect
    \/ FetchComplete
    \/ TaskReturn
    \/ OpRunScope
    \/ OpBatch
    \/ OpCreateComputed
    \/ ComputedReturn
    \/ OpRecompute
    \/ OpCreateMemo
    \/ MemoReturn
    \/ OpRememo
    \/ BatchReturn
    \/ RenderEnter
    \/ RenderBodyReturn
    \/ CallbackReturn
    \/ RenderPost
    \/ EffectStart
    \/ EffectReturn
    \/ RenderSettle
    \/ RenderExit
    \/ DrainStep
    \/ Deadlock

Spec == Init /\ [][Next]_vars


\* ------------------------------------------------------------------ claims

Frames == 1 .. Len(stack)

\* C1: between the start and the return of the closure f of a batch, no render
\* closure of a scope that was mounted when f started is executed.
C1_NoRenderInsideBatch ==
    \A i, j \in Frames :
        (/\ i < j
         /\ stack[i].kind = "body" /\ stack[i].role = "batch"
         /\ stack[j].kind = "body" /\ stack[j].role = "render")
        => stack[j].scope >= stack[i].mark

\* The host's call `op` has returned.
Returned(op) == Running /\ Idle /\ obs.call.op = op

\* C2: when a batch called outside any scope has returned and its closure
\* changed a signal, every owner and every dependent of a changed signal has
\* been rendered exactly once during the call.
C2_BatchRendersOnce ==
    (Returned("batch") /\ obs.chg # {})
        => \A s \in obs.need : Cnt(obs.rcount, s) = 1

\* C3: when the outermost call has returned without a drain hitting its cap,
\* every scope that held a dependency edge on a signal at the moment a set
\* changed it has been rendered since.
C3_DependentsRendered ==
    (Running /\ Idle /\ ~obs.capHit) => obs.owed = {}

RECURSIVE Total(_)
Total(f) ==
    IF DOMAIN f = {} THEN 0
    ELSE LET x == CHOOSE x \in DOMAIN f : TRUE IN f[x] + Total(Del(f, x))

\* C4: propagation between mutually triggering scopes terminates: the call
\* performs at most MAX_ITERATIONS renders and does not exhaust the stack.
C4_MutualTriggerBounded ==
    /\ status # "overflow"
    /\ Total(obs.rcount) <= MAX_ITERATIONS

\* C5: no user closure runs while a store lock is held, and no call blocks on
\* a lock held by its own call stack.
C5_NoClosureUnderLock ==
    /\ stack[Len(stack)].kind = "body" => Held = {}
    /\ status # "deadlock"

\* C6: a set of the value the signal already holds leaves the store, the
\* change record and the pending set as they were, starts no render and no
\* effect, and returns to its caller.
C6_EqualSetIsNoop ==
    [][\A o \in NextCalls :
          (/\ SetCall(o)
           /\ Key(o.ref, Top) \in DOMAIN signals
           /\ signals[Key(o.ref, Top)] = o.v)
          => /\ UNCHANGED <<signals, changes, pending, executing>>
             /\ stack' = Replace(Advance(Top))
             /\ obs'.rcount = ObsBase(o).rcount
             /\ obs'.ecount = ObsBase(o).ecount]_vars

\* A set written in a render closure or an effect has just returned, the
\* signal holds the value written and no change is recorded for it.
C6_EqualSetReturned ==
    /\ Running
    /\ Top.kind = "body" /\ ~Top.free /\ Top.pc > 1
    /\ LET o == Top.code[Top.pc - 1] IN
         /\ o.op = "set"
         /\ Key(o.ref, Top) \in DOMAIN signals
         /\ signals[Key(o.ref, Top)] = o.v
         /\ Key(o.ref, Top) \notin changes

\* The effects registered for scope s.
EffectsOf(s) == {e \in DOMAIN scopeEffects : e[1] = s}

\* C7: when a value-changing set of signal a, called outside any scope, effect
\* and batch, has returned, and the scope owning a has exactly one effect,
\* which reads a, that effect has run exactly once during the call.  The set
\* is the only change of a during the call.
C7_EffectRunsOnce ==
    \A e \in DOMAIN scopeEffects :
        (/\ Returned("set")
         /\ Cnt(obs.wr, KeyOf(obs.call)) = 1
         /\ EffectsOf(KeyOf(obs.call)[1]) = {e}
         /\ scopeEffects[e] = <<Get(obs.call.ref)>>)
        => Cnt(obs.ecount, e) = 1

\* A changing set of a signal whose owner has one effect reading it has
\* returned to the host.
C7_SetReturned ==
    /\ Returned("set")
    /\ Cnt(obs.wr, KeyOf(obs.call)) = 1
    /\ \E e \in DOMAIN scopeEffects :
         /\ EffectsOf(KeyOf(obs.call)[1]) = {e}
         /\ scopeEffects[e] = <<Get(obs.call.ref)>>
         /\ Cnt(obs.ecount, e) = 1

\* C8: when a set of signal B has returned to the host, an effect that reads
\* only signal A, which did not change during the call, has not run.
C8_EffectOnlyOnItsSignal ==
    \A e \in DOMAIN scopeEffects :
        (/\ Returned("set")
         /\ KeyOf(obs.call) \in obs.chg
         /\ Len(scopeEffects[e]) = 1
         /\ scopeEffects[e][1].op = "get"
         /\ KeyOf(scopeEffects[e][1]) \notin obs.chg)
        => Cnt(obs.ecount, e) = 0

\* The steps of a render during which its scope is marked as rendering.
Marked == {"body", "callback", "post", "effects"}

\* C9: while a render of scope S is in progress, no further render of S gets
\* past its entry: a nested render_scope(S) returns without running anything.
C9_NoNestedRender ==
    \A i, j \in Frames :
        (/\ i < j
         /\ stack[i].kind = "render" /\ stack[i].step \in Marked
         /\ stack[j].kind = "render" /\ stack[j].scope = stack[i].scope)
        => stack[j].step = "enter"

\* The computation of a computed signal that reads a signal has been started.
ComputedStarted ==
    \E i \in Frames : stack[i].kind = "computed" /\ stack[i].call.ref.t # "none"

\* A computed signal whose computation reads a signal is stored, holds the
\* value of its computation and has its recomputing effect registered.
ComputedHolds ==
    \E e \in DOMAIN scopeEffects :
        LET o == scopeEffects[e][1] IN
          /\ o.op = "recompute" /\ o.ref.t # "none"
          /\ o.q \in DOMAIN signals
          /\ signals[o.q] = Computation(o)

\* The thread of the program keeps running while it has a step to take.
FairSpec == Spec /\ WF_vars(Next)

\* C10: a computed signal is kept equal to its computation: once
\* create_computed(c) has started for a c that reads a signal, the computed
\* signal comes to hold the value of c on the signals it reads.
C10_ComputedKeptEqual == ComputedStarted ~> ComputedHolds

\* The statement the closure on top of the stack has just executed.
Done == Top.code[Top.pc - 1]
\* A closure given by its statements has executed one and is running.
Stepped == Running /\ Top.kind = "body" /\ ~Top.free /\ Top.pc > 1

\* C15: a with or a get through a handle whose entry is missing or holds a
\* value of another type does not fail fatally, and a set through such a
\* handle leaves the store and the change record unchanged.
C15_SoftAbsence ==
    [][\A o \in NextCalls :
          (/\ o.op \in {"with", "get", "set"}
           /\ ~Readable(Key(o.ref, Top), Ty(o.ref, Top)))
          => /\ (WithCall(o) \/ GetCall(o)) => status' = "running"
             /\ SetCall(o) => UNCHANGED <<signals, changes>>]_vars

\* C16: a create_signal for a key that has a store entry leaves the store
\* unchanged and returns without calling the initializer function.
C16_ExistingEntryKept ==
    [][\A o \in NextCalls :
          (CreateSignalCall(o) /\ ~OutsideScope /\ NextSignalId \in DOMAIN signals)
          => /\ signals' = signals
             /\ Len(stack') = Len(stack)
             /\ Key(Last, stack'[Len(stack')]) = NextSignalId]_vars

\* A render closure has just repeated a create_signal whose initial value,
\* given by value or by function, differs from the stored one.
C16_RepeatedCreate ==
    /\ Stepped /\ Top.role = "render"
    /\ Done.op = "create_signal"
    /\ Cnt(obs.rcount, Top.scope) = 1 /\ obs.call.op = "set"
    /\ signals[Key(Last, Top)] # Done.v

\* C17 as stated: after every create_signal(v) of a render closure, the
\* handle returned reads v.
C17_GetAfterCreate ==
    (Stepped /\ Top.role = "render" /\ Done.op = "create_signal")
        => signals[Key(Last, Top)] = Done.v

\* C17, amended: a create_signal(v) for a key without a store entry stores v
\* under the key of the handle it returns, which the next get reads; for a key
\* with an entry the handle reads the value stored before.
C17_GetAfterFirstCreate ==
    [][\A o \in NextCalls :
          (CreateSignalCall(o) /\ ~OutsideScope /\ o.p = "")
          => LET f == stack'[Len(stack')] IN
             /\ Key(Last, f) = NextSignalId
             /\ NextSignalId \in DOMAIN signals'
             /\ signals'[NextSignalId] =
                  (IF NextSignalId \in DOMAIN signals THEN signals[NextSignalId] ELSE o.v)
             /\ (NextSignalId \notin DOMAIN signals
                   => TypeOf(signals'[NextSignalId]) = Ty(Last, f))]_vars

\* A render closure has just created a signal in the scope's first render and
\* the store holds the initial value under the handle.
C17_FirstCreate ==
    /\ Stepped /\ Top.role = "render"
    /\ Done.op = "create_signal" /\ Done.p = ""
    /\ obs.call.op = "run_scope"
    /\ signals[Key(Last, Top)] = Done.v

\* C18: a set(w) through a handle of the entry's type made while a scope is
\* current (in the owner's render closure or in a nested scope's) stores w and
\* returns at once, nothing else having run: the next get reads w.
C18_SetVisible ==
    [][\A o \in NextCalls :
          (/\ SetCall(o)
           /\ currentScope # None
           /\ Readable(Key(o.ref, Top), TypeOf(o.v)))
          => /\ signals'[Key(o.ref, Top)] = o.v
             /\ stack' = Replace(Advance(Top))]_vars

\* A nested scope's render closure has just changed a signal of its parent.
C18_DeferredSetDone ==
    /\ Stepped /\ Top.role = "render"
    /\ Done.op = "set"
    /\ Key(Done.ref, Top)[1] # Top.scope
    /\ Key(Done.ref, Top) \in changes
    /\ signals[Key(Done.ref, Top)] = Done.v

\* C11: the computation of a memo is invoked once, when the memo is first
\* created: a create_memo that finds its key cached does not invoke it, and the
\* memo's effect invokes it only when the signal it reads no longer holds the
\* value it read last.
C11_MemoComputedOnce ==
    [][\A o \in NextCalls :
          /\ (CreateMemoCall(o) /\ ~OutsideScope
                /\ CacheKey(o.p, currentScope) \in DOMAIN memoCache)
             => obs'.fcount = ObsBase(o).fcount
          /\ (RememoCall(o) /\ CacheKey(o.p, o.q[1]) \in DOMAIN memoCache)
             => memoCache[CacheKey(o.p, o.q[1])].seen # signals[KeyOf(o)]]_vars

\* C12: when a set called outside any scope has returned and it changed the
\* signal a memo's computation reads, the computation has been invoked once
\* for each change of that signal during the call, and the memo's signal and
\* its cache entry hold the computation's value for the signal's value.
C12_MemoFollowsChange ==
    \A ck \in DOMAIN memoCache :
        LET m == memoCache[ck]
            src == <<m.src.s, m.src.k>>
        IN  (Returned("set") /\ src = KeyOf(obs.call) /\ src \in obs.chg)
            => /\ Cnt(obs.fcount, ck) = Cnt(obs.wr, src)
               /\ m.value = Computation([ref |-> m.src, v |-> 0])
               /\ signals[m.id] = m.value

\* C13: while an effect of scope S runs, S's render closure and S's callback
\* have returned, and the effect is the first of the scope's effects, in
\* ascending order of registration, that the render has not finished yet.
C13_EffectsAfterRender ==
    \A j \in Frames :
        (stack[j].kind = "body" /\ stack[j].role = "effect")
        => /\ \A i \in 1 .. (j - 1) :
                ~(/\ stack[i].kind = "body"
                  /\ stack[i].role \in {"render", "callback"}
                  /\ stack[i].scope = stack[j].scope)
           /\ LET r == stack[j - 1] IN
                /\ r.kind = "render" /\ r.step = "effects" /\ r.scope = stack[j].scope
                /\ Head(r.effs) = stack[j].eid[2]
                /\ \A a, b \in 1 .. Len(r.effs) : a < b => r.effs[a] < r.effs[b]

\* The creating calls.
Creations ==
    {"create_signal", "create_effect", "create_effect_with_cleanup", "create_computed",
     "create_memo"}

\* C14: a creating call made while no scope is current panics, and consumes
\* no signal or effect ordinal and adds nothing to the signal store, the
\* effect registry or the memo cache.
C14_CreateOutsideScope ==
    [][\A o \in NextCalls :
          (/\ currentScope = None
           /\ \/ CreateSignalCall(o)
              \/ CreateEffectCall(o)
              \/ CreateEffectWithCleanupCall(o)
              \/ CreateComputedCall(o)
              \/ CreateMemoCall(o))
          => /\ status' = "panic"
             /\ UNCHANGED <<sigCounter, effCounter, signals, scopeEffects, cleanups,
                            memoCache>>]_vars

\* The host, or a batch it runs, has made a creating call outside any scope
\* and the call has panicked.
C14_Panicked ==
    /\ status = "panic"
    /\ currentScope = None
    /\ Top.kind = "body" /\ Top.free
    /\ obs.call.op \in Creations

\* The first render of scope s, by the run_scope that mounts it, is under way.
FirstRender(s) == obs.call.op = "run_scope" /\ Cnt(obs.rcount, s) = 1

\* Scope s has registered the effect of a resource created first in its closure.
OwnsResource(s) ==
    \E id \in DOMAIN scopeEffects :
        /\ id[1] = s
        /\ scopeEffects[id] = <<ResourceEffect(Typed(s, 2, "status"), Typed(s, 1, "option"))>>

\* The fetch whose future is running, and the value its fetcher returned.
Fetched == [value |-> Top.code[1].ref, status |-> Top.code[2].ref, v |-> Top.code[1].v]

\* C19: the status of a resource is Idle when create_resource returns in the
\* first render of its scope; when the effects of that render are done it is
\* Loading and exactly one fetch is with the executor; when the future of a
\* completed fetch has run, the status is Resolved and the value is Some of
\* what the fetcher returned.
C19_ResourceLifecycle ==
    /\ (/\ Stepped /\ Top.role = "render" /\ FirstRender(Top.scope)
        /\ Done = CreateEffect("resource_effect"))
       => signals[Key(Loc(2), Top)] = StatusIdle
    /\ (/\ AtStep("render", "effects") /\ Top.effs = <<>> /\ FirstRender(Top.scope)
        /\ OwnsResource(Top.scope))
       => /\ signals[<<Top.scope, 2>>] = StatusLoading
          /\ fetches = <<[value |-> Typed(Top.scope, 1, "option"),
                          status |-> Typed(Top.scope, 2, "status")]>>
    /\ Returns("task")
       => /\ signals[Key(Fetched.status, Top)] = StatusResolved
          /\ signals[Key(Fetched.value, Top)] = Fetched.v

\* The future of a completed fetch has run to its end.
C19_FetchCompleted == Returns("task") /\ Fetched.v = Some(1)

\* The status of the resource of scope s is v.
StatusIs(s, v) == <<s, 2>> \in DOMAIN signals /\ signals[<<s, 2>>] = v

\* C20: a retry that has changed the status of a resource to Pending is
\* eventually followed by the resource's effect moving the status to Loading,
\* as long as the process lives.
C20_RetryReloads ==
    \A s \in 1 .. MaxScopes :
        (OwnsResource(s) /\ StatusIs(s, StatusPending))
            ~> (StatusIs(s, StatusLoading) \/ ~Running)

\* C21: a fetch in flight leaves the executor only by completing, one at a
\* time, whatever else is in flight; and when the future of a completed fetch
\* has run, the status is Resolved and the value is the result of that fetch,
\* the last one to complete.
C21_LastCompletionWins ==
    [][/\ Len(fetches') < Len(fetches)
          => /\ Len(fetches') = Len(fetches) - 1
             /\ stack'[Len(stack')].kind = "body" /\ stack'[Len(stack')].role = "task"
       /\ TaskReturn
          => /\ signals[Key(Fetched.status, Top)] = StatusResolved
             /\ signals[Key(Fetched.value, Top)] = Some(obs.done[Len(obs.done)].v)]_vars

\* A retry started a second fetch while the first was in flight; the second
\* completed first, then the first, with another result.
C21_BothCompleted ==
    /\ Returns("task")
    /\ fetches = <<>>
    /\ Len(obs.done) = 2
    /\ obs.done[1].i = 2 /\ obs.done[1].of = 2
    /\ obs.done[1].v # obs.done[2].v

\* The scope ids in use: the registered scopes and the scopes being rendered.
ScopeIds ==
    DOMAIN scopeFns \cup DOMAIN scopeCallbacks \cup
    {stack[j].scope : j \in {i \in Frames : stack[i].kind = "render"}}

\* The first render of a scope is on top of the stack, past its entry checks.
Mounting == Running /\ Top.kind = "render" /\ Top.mount

\* C22: the next scope id is at least 1 and above every id in use; a run_scope
\* call is never kept from registering its closures; and the first render of
\* the scope executes the render closure, has a callback to invoke and is
\* never kept from going on to return its node.
C22_FirstRenderProceeds ==
    /\ nextScopeId >= 1
    /\ \A s \in ScopeIds : 1 <= s /\ s < nextScopeId
    /\ \A o \in NextCalls : o.op = "run_scope" => ~Blocks(LocksOf(o))
    /\ Mounting
       => /\ ~Blocks(StepLocks(Top))
          /\ Top.step # "enter" => (Top.ran /\ Top.scope \in DOMAIN scopeCallbacks)

\* The frame of the caller once the call it makes now has been made.
Caller == stack'[Len(stack)]

\* C23: on a vector signal of length n, push(x) leaves the vector with x
\* appended (length n + 1) and, for n >= 1, pop() leaves it without its last
\* element (length n - 1) and returns that element; either records the key in
\* the change record and renders the owner exactly when a plain set would.
C23_PushPop ==
    [][\A o \in NextCalls :
          LET k == Key(o.ref, Top)
              q == ItemsOf(signals[k])
          IN  /\ (PushCall(o) /\ Readable(k, "vec"))
                 => /\ ItemsOf(signals'[k]) = Append(q, o.v)
                    /\ Len(ItemsOf(signals'[k])) = Len(q) + 1
                    /\ changes' = changes \cup {k}
                    /\ (Len(stack') = Len(stack) + 1) <=> ShouldRenderNow
              /\ (PopCall(o) /\ Readable(k, "vec") /\ Len(q) >= 1)
                 => /\ Len(ItemsOf(signals'[k])) = Len(q) - 1
                    /\ ItemsOf(signals'[k]) = SubSeq(q, 1, Len(q) - 1)
                    /\ Caller.ret = q[Len(q)]
                    /\ changes' = changes \cup {k}
                    /\ (Len(stack') = Len(stack) + 1) <=> ShouldRenderNow]_vars

\* The host has pushed 1 and then 2 on an empty vector and has popped the 2.
C23_PoppedLast ==
    /\ Returned("pop")
    /\ Top.ret = 2
    /\ \E k \in DOMAIN signals : signals[k] = Vec(<<1>>)

\* C24: a set that changes the value records the key in the change record;
\* when the batch flag is off, no scope is current and no effect is executing
\* it calls render_scope on the owner, which is not turned away and has its
\* render closure to run; in every other case it returns at once and no render
\* closure has run.
C24_RenderIffTopLevel ==
    [][\A o \in NextCalls :
          LET k == Key(o.ref, Top) IN
          (SetCall(o) /\ SetChanged(k, o.v))
          => /\ changes' = changes \cup {k}
             /\ IF ~batchFlag /\ currentScope = None /\ executing = {}
                THEN /\ stack' = Replace(Advance(Top)) \o <<RenderFrame(k[1])>>
                     /\ ~AlreadyRendering(k[1])
                     /\ scope_has_signal_changes(k[1])
                     /\ k[1] \in DOMAIN scopeFns
                ELSE /\ stack' = Replace(Advance(Top))
                     /\ obs'.rcount = ObsBase(o).rcount]_vars

\* An effect has just changed, by a set, the signal it read.
C24_SetInEffect ==
    /\ Stepped /\ Top.role = "effect"
    /\ Done.op = "set"
    /\ Top.eid \in executing
    /\ Key(Done.ref, Top) \in changes
    /\ signals[Key(Done.ref, Top)] = Done.v

\* C25: when the outermost call (a run_scope or a set that renders, or a
\* batch) has returned to the host or to the executor's task, and no drain has
\* hit its cap, the pending-render set is empty.
C25_PendingDrained ==
    (Running /\ Top.kind = "body" /\ currentScope = None /\ ~batchFlag /\ ~obs.capHit)
        => pending = {}

\* The keys changed since the render on top of the stack began.
ChangedDuring == {k \in DOMAIN obs.wr : obs.wr[k] > Cnt(Top.wr0, k)}

\* The scopes other than s that hold a dependency edge on a key of K.
OtherDependents(K, s) == {d \in UNION {Dependents(k) : k \in K} : d # s}

\* C26: the end of a render of scope S adds to the pending-render set exactly
\* the scopes other than S that hold a dependency edge on a signal changed
\* during that render, never S, and starts a drain only if no outer render is
\* in progress.
C26_QueuedExactly ==
    [][RenderSettle
       => /\ pending' = pending \cup OtherDependents(ChangedDuring, Top.scope)
          /\ Top.scope \notin pending' \ pending
          /\ Len(stack') > Len(stack) => Top.was = 0]_vars

\* The keys an effect both reads and writes.
SelfWritten(e) ==
    LET code == scopeEffects[e]
        Reads == {KeyOf(code[i]) : i \in {j \in DOMAIN code :
                                            code[j].op \in {"get", "with", "add_assign"}}}
        Writes == {KeyOf(code[i]) : i \in {j \in DOMAIN code :
                                             code[j].op \in {"set", "add_assign"}}}
    IN  Reads \cap Writes

\* C27: an effect is never entered while it is executing; and an effect that
\* changes a signal it reads, nothing else having changed, runs at most
\* once in the run_scope or set of the host that renders its scope: the scope
\* is rendered once and the effect is left executing only by a panic.
C27_NoSelfRerun ==
    /\ \A i, j \in Frames :
         (/\ i < j
          /\ stack[i].kind = "body" /\ stack[i].role = "effect"
          /\ stack[j].kind = "body" /\ stack[j].role = "effect")
         => stack[i].eid # stack[j].eid
    /\ \A e \in DOMAIN scopeEffects :
         (/\ obs.call.op \in {"run_scope", "set"}
          /\ SelfWritten(e) # {} /\ obs.chg \subseteq SelfWritten(e))
         => /\ Cnt(obs.ecount, e) <= 1
            /\ Cnt(obs.rcount, e[1]) <= 1
            /\ e \in executing => status = "running"

\* test_signal_and_effect_in_scope: run_scope has returned, the effect having
\* run once and changed the signal it read.
C27_SelfSetReturned ==
    /\ Returned("run_scope")
    /\ \E e \in DOMAIN scopeEffects :
         /\ SelfWritten(e) \cap obs.chg # {}
         /\ Cnt(obs.ecount, e) = 1
         /\ pending = {}

\* A drain step that starts a render.
DrainRenders == DrainStep /\ Len(stack') > Len(stack)

\* C28: a run of the drain loop makes at most MAX_ITERATIONS iterations, the
\* last of which ends the loop without a panic: the caller of the loop goes on.
C28_DrainCapped ==
    [][/\ \A i \in Frames :
            stack[i].kind = "drain" => stack[i].iterations < MAX_ITERATIONS
       /\ DrainRenders => stack'[Len(stack)].iterations < MAX_ITERATIONS
       /\ (DrainStep /\ pending # {} /\ Top.iterations + 1 = MAX_ITERATIONS)
          => /\ stack' = Rest
             /\ status' = "running"]_vars

\* A drain loop was stopped by the cap and its caller, a batch in the render
\* closure of scope 1, has returned: the host is running again.
C28_StoppedAtCap ==
    /\ obs.capHit
    /\ Running
    /\ Idle

\* C29: a drain step that removes a scope from the pending set renders it.
C29_RemovedIsRendered ==
    [][(DrainStep /\ pending' # pending)
       => /\ DrainRenders
          /\ pending \ pending' = {stack'[Len(stack')].scope}]_vars

\* C30: a drain step renders the lowest pending scope: the scopes left pending
\* are those that were pending, all of them higher than the one rendered.
C30_LowestFirst ==
    [][DrainRenders
       => LET scope_id == stack'[Len(stack')].scope IN
          /\ stack'[Len(stack')].kind = "render"
          /\ scope_id \in pending
          /\ pending' = pending \ {scope_id}
          /\ \A s \in pending' : scope_id < s]_vars

\* Two scopes were pending: a drain step has started the render of the lower
\* one and left the higher one pending.
C30_TwoPending ==
    /\ Len(stack) >= 2
    /\ stack[Len(stack) - 1].kind = "drain"
    /\ Top.kind = "render" /\ Top.step = "enter"
    /\ pending # {}
    /\ \A s \in pending : Top.scope < s

\* C31: the effects run_scope_effects collects at the end of a render of a
\* scope are those registered since the render began: their ordinals are the
\* ones the scope's effect counter has handed out in this render.
C31_EffectsOfThisRender ==
    [][RenderPost
       => LET effect_ids == stack'[Len(stack')].effs
          IN  {effect_ids[i] : i \in DOMAIN effect_ids} = 1 .. Cnt(effCounter, Top.scope)]_vars

\* C32: a create_memo that finds its cache entry takes an effect ordinal as
\* the first create_memo did, and the recomputing effect of a memo is never
\* replaced by another effect.
C32_MemoEffectKept ==
    [][/\ \A o \in NextCalls :
            (/\ CreateMemoCall(o)
             /\ ~OutsideScope
             /\ CacheKey(o.p, currentScope) \in DOMAIN memoCache)
            => effCounter' = Bump(effCounter, currentScope)
       /\ \A e \in {x \in DOMAIN scopeEffects :
                     scopeEffects[x] # <<>> /\ scopeEffects[x][1].op = "rememo"} :
            /\ e \in DOMAIN scopeEffects'
            /\ scopeEffects'[e][1].op = "rememo"]_vars

\* C33: a create_memo that finds its cache entry returns a handle whose
\* signal holds the computation's value for the present value of the signal
\* the computation reads.
C33_MemoFreshInRender ==
    [][\A o \in NextCalls :
          (/\ CreateMemoCall(o)
           /\ ~OutsideScope
           /\ CacheKey(o.p, currentScope) \in DOMAIN memoCache)
          => LET src == Typed(Key(o.ref, Top)[1], Key(o.ref, Top)[2], Ty(o.ref, Top))
             IN  signals'[NextSignalId] = Computation([ref |-> src, v |-> 0])]_vars

\* C34: the k-th signal-creating call of a render closure of scope S gets the
\* key (S, k), and at the end of a render of S neither ordinal counter of S
\* is left.
C34_StableIds ==
    [][/\ \A o \in NextCalls :
            (/\ o.op \in {"create_signal", "create_computed", "create_memo"}
             /\ Top.role = "render"
             /\ ~Blocks(LocksOf(o)))
            => NextSignalId = <<Top.scope, Len(Top.h) + 1>>
       /\ RenderSettle
            => /\ Top.scope \notin DOMAIN sigCounter'
               /\ Top.scope \notin DOMAIN effCounter']_vars

\* The signals scope c holds a dependency edge on.
Edges(c) == IF c \in DOMAIN scopeDeps THEN scopeDeps[c] ELSE {}

\* C35: a top-level render of S begins with no edge of S in either index; a
\* nested render begins with the indices as they were; and until the next
\* render begins the edges of a scope change only when a signal is read while
\* it is the current scope, the signal read being added to them.
C35_EdgesRebuilt ==
    [][/\ (RenderEnter /\ currentScope' = Top.scope /\ Len(stack') >= Len(stack))
            => IF renderingScope = 0
               THEN /\ Edges(Top.scope)' = {}
                    /\ \A k \in DOMAIN sigDeps' : Top.scope \notin sigDeps'[k]
               ELSE UNCHANGED <<scopeDeps, sigDeps>>
       /\ ~RenderEnter
            => \A c \in ScopeIds :
                 Edges(c)' # Edges(c)
                 => /\ c = currentScope
                    /\ \E o \in NextCalls : Edges(c)' = Edges(c) \cup {Key(o.ref, Top)}
       /\ \A o \in NextCalls :
            (/\ o.op \in ReadOps
             /\ ~Top.free
             /\ currentScope # None)
            => /\ Edges(currentScope)' = Edges(currentScope) \cup {Key(o.ref, Top)}
               /\ currentScope \in sigDeps'[Key(o.ref, Top)]]_vars

\* A top-level render of a scope has completed in this call of the host: the
\* scope holds edges, and a signal it read in an earlier render only has no
\* dependent any more.
C35_StaleEdgeDropped ==
    /\ Running /\ Idle
    /\ \E k \in DOMAIN sigDeps :
         /\ sigDeps[k] = {}
         /\ Cnt(obs.rcount, k[1]) >= 1
         /\ Edges(k[1]) # {}

\* C36: a stored cleanup is removed only by the run of its effect that calls
\* it, before any statement of the effect's body; a cleanup runs only there;
\* and the cleanup an effect returns is stored when none is stored for it.
C36_CleanupBeforeNextRun ==
    [][/\ \A j \in Frames :
            (stack[j].kind = "body" /\ stack[j].role = "cleanup")
            => /\ j > 2
               /\ stack[j - 2].kind = "body" /\ stack[j - 2].role = "effect"
               /\ stack[j - 2].eid = stack[j].eid
               /\ stack[j - 2].pc = 2
               /\ stack[j].eid \notin DOMAIN cleanups
       /\ \A e \in DOMAIN cleanups :
            (e \notin DOMAIN cleanups' \/ cleanups'[e] # cleanups[e])
            => /\ OpRunCleanup
               /\ Top.eid = e /\ Top.pc = 1
               /\ e \notin DOMAIN cleanups'
               /\ stack'[Len(stack')].role = "cleanup"
               /\ stack'[Len(stack')].code = cleanups[e]
       /\ OpStoreCleanup
            => /\ Top.eid \notin DOMAIN cleanups
               /\ Top.pc = Len(Top.code)]_vars

\* The cleanup returned by the first run of an effect is running, in the
\* second run of the effect.
C36_CleanupRunning ==
    /\ Running
    /\ Top.kind = "body" /\ Top.role = "cleanup"
    /\ Cnt(obs.ecount, Top.eid) >= 1

\* C37: the status of a resource changes from Idle or Pending to Loading, by
\* the resource's effect, which starts one fetch; from Loading to Resolved, by
\* the future of a completed fetch; and from any status to Pending, by retry.
C37_StatusEdges ==
    [][\A k \in {x \in DOMAIN signals : signals[x] \in Statuses} :
          signals'[k] # signals[k]
          => \/ /\ signals'[k] = StatusLoading
                /\ signals[k] \in {StatusIdle, StatusPending}
                /\ \E o \in NextCalls : ResourceEffectCall(o) /\ Key(o.ref, Top) = k
                /\ Len(fetches') = Len(fetches) + 1
             \/ /\ signals'[k] = StatusResolved
                /\ signals[k] = StatusLoading
                /\ Top.kind = "body" /\ Top.role = "task"
             \/ /\ signals'[k] = StatusPending
                /\ \E o \in NextCalls : SetCall(o) /\ o = Retry(o.ref) /\ Key(o.ref, Top) = k]_vars

\* The render_scope calls on the stack that have made their scope current,
\* and those of them that have not restored the rendering flag yet.
Entered == {j \in Frames : stack[j].kind = "render" /\ stack[j].step # "enter"}

Unsettled == {j \in Entered : stack[j].step # "exit"}

Max(S) == CHOOSE x \in S : \A y \in S : x >= y

\* C38: the execution context is what the calls in progress have made it: the
\* current scope is that of the innermost render_scope that has set it, the
\* rendering scope that of the innermost render that has not restored it, the
\* executing effects are the effects running, and with no call in progress the
\* current scope is none, the rendering scope 0, no effect executing and the
\* batch flag off.  A call that returns leaves the calls in progress as it
\* found them, and so the context.
C38_ContextRestored ==
    Running =>
        /\ currentScope = IF Entered = {} THEN None ELSE stack[Max(Entered)].scope
        /\ renderingScope = IF Unsettled = {} THEN 0 ELSE stack[Max(Unsettled)].scope
        /\ executing = {stack[j].eid : j \in {i \in Frames : /\ stack[i].kind = "body"
                                                             /\ stack[i].role = "effect"}}
        /\ Idle => (currentScope = None /\ renderingScope = 0 /\ executing = {} /\ ~batchFlag)

\* A batch of the host has returned, a scope having been rendered and an
\* effect run inside it.
C38_BatchReturned ==
    /\ Returned("batch")
    /\ \E s \in DOMAIN obs.rcount : Cnt(obs.rcount, s) >= 1
    /\ \E e \in DOMAIN obs.ecount : Cnt(obs.ecount, e) >= 1

\* C39: the two dependency indices mirror each other, and no scope has an
\* empty entry.
C39_IndicesMirrored ==
    /\ \A k \in DOMAIN sigDeps : \A c \in sigDeps[k] : k \in Edges(c)
    /\ \A c \in DOMAIN scopeDeps :
         /\ scopeDeps[c] # {}
         /\ \A k \in scopeDeps[c] : k \in DOMAIN sigDeps /\ c \in sigDeps[k]

\* A set of the host has returned: the owner of a signal with two dependent
\* scopes was rendered, its edges cleared and recorded again.
C39_EdgesAddedAndCleared ==
    /\ Returned("set")
    /\ \E k \in DOMAIN sigDeps :
         /\ Cardinality(sigDeps[k]) >= 2
         /\ k[1] \in sigDeps[k]
         /\ Cnt(obs.rcount, k[1]) >= 1

\* C40: scope_has_signal_changes is true of every scope id in every state, so
\* a render_scope of a scope that is not the rendering scope is about to make
\* its scope current and go on.
C40_NeverSkipped ==
    /\ \A s \in 1 .. MaxScopes + 1 : scope_has_signal_changes(s)
    /\ (AtStep("render", "enter") /\ ~AlreadyRendering(Top.scope))
         => scope_has_signal_changes(Top.scope)

\* A render_scope of a scope that holds dependency edges, and is not the
\* rendering scope, is at its change check.
C40_RerenderAtCheck ==
    /\ AtStep("render", "enter")
    /\ ~AlreadyRendering(Top.scope)
    /\ Top.scope \in DOMAIN scopeDeps

====
